---------------------------- MODULE Spec2Model ----------------------------
(***************************************************************************)
(* A model of nss_core: the content-addressed object store, the blob /     *)
(* tree / commit codecs, the staging index codec and diff, and the commit  *)
(* graph.  Bytes of text are one-character strings ("NUL", "LF" and "TAB"  *)
(* name the bytes 0x00, 0x0a and 0x09); bytes of the binary index are      *)
(* numbers 0..255.                                                         *)
(***************************************************************************)
EXTENDS Integers, Sequences, FiniteSets, TLC

VARIABLES
    root,       \* NssRepository.root, as a string of characters
    dirs,       \* the shard directories that exist under <root>/.nss/objects
    files,      \* the object files: 40-hex hash |-> bytes of the file
    op,         \* the last call made on the repository and what it returned
    commit,     \* the Commit being encoded
    tree,       \* the Tree being encoded
    idx,        \* the Index being encoded
    raw,        \* the bytes an encoder produced (<<>> before it ran)
    decoded,    \* what the decoder returned for raw
    blob,       \* the Blob being encoded
    index_self, \* the Index diff is called on (self)
    index_vs,   \* the Index diff is given (vs)
    changes,    \* the Vec diff returned
    graph,          \* the Graph common_vertex_value is called on (self)
    another_graph,  \* the Graph it is given
    common,         \* what the latest common_vertex_value call returned
    writers,        \* the write_object calls in progress, one per writer
    head,           \* .nss/HEAD: <<>> when absent, else <<its content>>
    bookmarks,      \* .nss/bookmarks/local: bookmark name |-> file content
    last_write_head,    \* the latest write_head that returned Ok
    bookmark_store, \* the files under Repository<BookMark>.root
    nss_dirs,       \* the directories that have an entry named .nss
    found,          \* the latest exists_repo call and what it returned
    worktree,       \* the files of the working tree: path |-> content
    staged,         \* the Index that new_all, add and try_from_tree produce
    stage_call,     \* the latest call on the index and what it returned
    temp_dirs,      \* the temporary directories that exist under .nss
    objects,        \* the typed object store: hex hash |-> object
    graph_call,     \* the latest call on graph and what it returned
    index_file,     \* .nss/INDEX: the bytes the file holds
    index_io        \* the write_index and read_index calls in progress

storeVars == <<root, dirs, files, op>>

codecVars == <<commit, tree, idx, raw, decoded, blob>>

diffVars == <<index_self, index_vs, changes>>

graphVars == <<graph, another_graph, common>>

refVars == <<head, bookmarks, last_write_head, bookmark_store>>

discoveryVars == <<nss_dirs, found>>

stageVars == <<worktree, staged, stage_call, temp_dirs, objects>>

indexIoVars == <<index_file, index_io>>

repoVars == <<writers, head, bookmarks, last_write_head, bookmark_store,
              nss_dirs, found, worktree, staged, stage_call, temp_dirs,
              objects, graph_call, index_file, index_io>>

vars == <<root, dirs, files, op, commit, tree, idx, raw, decoded, blob,
          index_self, index_vs, changes, graph, another_graph, common,
          writers, head, bookmarks, last_write_head, bookmark_store,
          nss_dirs, found, worktree, staged, stage_call, temp_dirs,
          objects, graph_call, index_file, index_io>>

---------------------------------------------------------------------------
(* Bytes and strings                                                       *)

\* The bytes the model uses, in ascending byte order.
ByteOrder ==
    << "NUL", "TAB", "LF", " ", "-", ".", "/",
       "0", "1", "2", "3", "4", "5", "6", "7", "8", "9",
       "N", "Z",
       "a", "b", "c", "d", "e", "f", "g", "h", "i", "j", "k", "l", "m",
       "n", "o", "p", "q", "r", "s", "t", "u", "v", "w", "x", "y", "z" >>

Rank(c) == CHOOSE i \in 1..Len(ByteOrder) : ByteOrder[i] = c

Min2(a, b) == IF a <= b THEN a ELSE b

\* Ord for byte strings (Vec<u8>, String, OsString): lexicographic.
StrLt(a, b) ==
    \E i \in 1..(Min2(Len(a), Len(b)) + 1) :
        /\ \A j \in 1..(i - 1) : a[j] = b[j]
        /\ \/ i = Len(a) + 1 /\ i <= Len(b)
           \/ i <= Len(a) /\ i <= Len(b) /\ Rank(a[i]) < Rank(b[i])

\* Only the last four characters of needle are looked for in hay.
ContainsTail(hay, needle) ==
    LET tail == SubSeq(needle, Len(needle) - 3, Len(needle))
    IN  \E i \in 0..(Len(hay) - Len(tail)) : SubSeq(hay, i + 1, i + Len(tail)) = tail

\* str::contains: needle occurs in hay as a substring.
Contains(hay, needle) ==
    \E i \in 0..(Len(hay) - Len(needle)) :
        SubSeq(hay, i + 1, i + Len(needle)) = needle

\* n copies of the byte c.
Repeat(c, n) == [i \in 1..n |-> c]

\* slice::sort on distinct byte strings: the strings of S in ascending order.
RECURSIVE SortStrings(_)
SortStrings(S) ==
    IF S = {} THEN <<>>
    ELSE LET m == CHOOSE x \in S : \A y \in S \ {x} : StrLt(x, y)
         IN  <<m>> \o SortStrings(S \ {m})

\* format!("{}", n) for an unsigned integer: decimal, no leading zeros.
RECURSIVE ToDec(_)
ToDec(n) ==
    IF n < 10 THEN <<ByteOrder[8 + n]>>
    ELSE ToDec(n \div 10) \o <<ByteOrder[8 + (n % 10)]>>

\* i64 rendered by format!("{}", n).
ToDecI64(n) == IF n < 0 THEN <<"-">> \o ToDec(-n) ELSE ToDec(n)

Digits == { "0", "1", "2", "3", "4", "5", "6", "7", "8", "9" }

\* The value of a string of decimal digits.
RECURSIVE DecVal(_)
DecVal(d) ==
    IF d = <<>> THEN 0
    ELSE 10 * DecVal(SubSeq(d, 1, Len(d) - 1)) + (Rank(d[Len(d)]) - 8)

\* slice::split / str::split: the pieces of s between the bytes of seps.
RECURSIVE SplitBy(_, _)
SplitBy(s, seps) ==
    IF \A i \in 1..Len(s) : s[i] \notin seps THEN <<s>>
    ELSE LET i == CHOOSE k \in 1..Len(s) :
                      s[k] \in seps /\ \A j \in 1..(k - 1) : s[j] \notin seps
         IN  <<SubSeq(s, 1, i - 1)>> \o SplitBy(SubSeq(s, i + 1, Len(s)), seps)

\* slice::split on every sep, the first two pieces kept.
SplitFirstTwo(s, sep) ==
    LET pieces == SplitBy(s, {sep})
    IN  IF Len(pieces) < 2 THEN pieces ELSE <<pieces[1], pieces[2]>>

\* splitn(2, |b| b == sep): s cut at its first sep, or s alone without one.
Splitn2(s, sep) ==
    IF \A i \in 1..Len(s) : s[i] # sep THEN <<s>>
    ELSE LET i == CHOOSE k \in 1..Len(s) :
                      s[k] = sep /\ \A j \in 1..(k - 1) : s[j] # sep
         IN  <<SubSeq(s, 1, i - 1), SubSeq(s, i + 1, Len(s))>>

Whitespace == { " ", "TAB", "LF" }

\* str::split_whitespace: the maximal runs of non-whitespace.
split_whitespace(s) == SelectSeq(SplitBy(s, Whitespace), LAMBDA t : t # <<>>)

\* Concatenation of a sequence of strings (Vec::concat, collect::<String>).
RECURSIVE Concat(_)
Concat(ss) == IF ss = <<>> THEN <<>> ELSE Head(ss) \o Concat(Tail(ss))

Ok(v) == [tag |-> "Ok", err |-> "", val |-> v]
Err(e) == [tag |-> "Err", err |-> e, val |-> <<>>]

---------------------------------------------------------------------------
(* Objects and their hashes                                                *)

\* Blob::as_bytes: "blob <len>\0<content>".
Blob_as_bytes(content) ==
    <<"b", "l", "o", "b", " ">> \o ToDec(Len(content)) \o <<"NUL">> \o content

\* The contents of the blobs written to the store.
Blobs == { <<>>, <<"a">>, <<"b">>, <<"a", "b">>, <<"NUL">> }

\* A 40-character hex hash that starts with the given characters.
HexFrom(p) == p \o Repeat("0", 40 - Len(p))

\* hex::encode(object.to_hash()) of the object whose framing is bytes.
\* SHA-1 is not computed: the model fixes the digests of its five blobs,
\* distinct, three of them in one shard and sharing leading characters, one
\* holding the characters of another's prefix further in.  The trees and
\* commits of the store get digests that tell them apart by kind and length.
Sha1Hex(bytes) ==
    CASE bytes = Blob_as_bytes(<<>>)         -> HexFrom(<<"a", "b", "c", "d", "e", "f", "1">>)
      [] bytes = Blob_as_bytes(<<"a">>)      -> HexFrom(<<"a", "b", "c", "d", "e", "f", "2">>)
      [] bytes = Blob_as_bytes(<<"b">>)      -> HexFrom(<<"a", "b", "c", "d", "e", "f", "2", "1">>)
      [] bytes = Blob_as_bytes(<<"a", "b">>) -> HexFrom(<<"a", "b", "1", "2", "c", "d", "e", "f">>)
      [] bytes = Blob_as_bytes(<<"NUL">>)    -> HexFrom(<<"c", "d", "e", "f", "a", "b">>)
      [] OTHER -> HexFrom((IF bytes[1] = "t" THEN <<"d">> ELSE <<"e">>) \o ToDec(Len(bytes)))

\* ZlibEncoder / ZlibDecoder (flate2): an invertible wrapping of the bytes.
Compress(bytes) == <<"Z">> \o bytes

---------------------------------------------------------------------------
(* The object store (NssRepository)                                        *)

\* The hash length below which a lookup is refused.
MinHashLen == 6

\* The longest abbreviated hash looked up (full hashes are looked up too).
MaxQueryLen == 8

\* The repository roots tried: the second holds hex characters.
Roots == { <<"/", "r">>, <<"/", "c", "d", "e", "f">> }

\* hash.split_at(2)
ShardDir(hash) == SubSeq(hash, 1, 2)
ShardFile(hash) == SubSeq(hash, 3, Len(hash))

\* <root>/.nss/objects/<dir>
ObjectDir(r, dir) ==
    r \o <<"/", ".", "n", "s", "s", "/", "o", "b", "j", "e", "c", "t", "s", "/">> \o dir

\* NssRepository::objects_path: <root>/.nss/objects/<2 chars>/<38 chars>
objects_path(r, hash) == ObjectDir(r, ShardDir(hash)) \o <<"/">> \o ShardFile(hash)

\* file_system::create_dir (fs::create_dir_all): no error when it exists.
create_dir(ds, dir) == ds \cup {dir}

\* file_system::create_new_with_buffer: OpenOptions::create_new(true), then
\* write_all.  The open fails with AlreadyExists when the file exists.
create_new_with_buffer(fs, hash, buffer) ==
    IF hash \in DOMAIN fs
    THEN [res |-> Err("AlreadyExists"), fs |-> fs]
    ELSE [res |-> Ok(<<>>), fs |-> fs @@ (hash :> buffer)]

\* NssRepository::ext_paths: the sorted paths of the entries of a directory;
\* read_dir fails when the directory does not exist.
ext_paths(r, ds, fs, dir) ==
    IF dir \notin ds THEN Err("Io")
    ELSE Ok(SortStrings({ objects_path(r, h) : h \in { g \in DOMAIN fs : ShardDir(g) = dir } }))

\* NssRepository::try_get_objects_path
try_get_objects_path(r, ds, fs, hash) ==
    IF Len(hash) < MinHashLen THEN Err("LessObjectHash")
    ELSE LET dir == ShardDir(hash)
             file == ShardFile(hash)
             paths == ext_paths(r, ds, fs, dir)
         IN  IF paths.tag = "Err" THEN paths
             ELSE LET target_files == SelectSeq(paths.val, LAMBDA p : Contains(p, file))
                  IN  IF Len(target_files) > 2 THEN Err("CannotSpecifyHash")
                      ELSE IF target_files = <<>> THEN Err("NotFoundObject")
                      ELSE Ok(target_files[1])

\* The abbreviated and full hashes looked up.
Queries ==
    { SubSeq(Sha1Hex(Blob_as_bytes(c)), 1, n) :
        c \in Blobs, n \in ((MinHashLen - 1)..MaxQueryLen) \cup {40} }

NotRun == [tag |-> "None", err |-> "", val |-> <<>>]

\* Graph::new()
Graph_new == [vertexs |-> <<>>, edges |-> <<>>]

GraphIdle ==
    /\ graph = Graph_new
    /\ another_graph = Graph_new
    /\ common = NotRun

\* The writers of the model and a writer that has not called write_object.
Writers == {1, 2}
NoCall == [pc |-> "idle", buffer |-> <<>>, res |-> NotRun]

RefsIdle ==
    /\ head = <<>>
    /\ bookmarks = << >>
    /\ last_write_head = NotRun
    /\ bookmark_store = << >>

DiscoveryIdle ==
    /\ nss_dirs = {}
    /\ found = NotRun

\* Index::empty()
Index_empty == [version |-> 1, filemetas |-> <<>>]

StageIdle ==
    /\ worktree = << >>
    /\ staged = Index_empty
    /\ stage_call = NotRun
    /\ temp_dirs = {}
    /\ objects = << >>

IndexIoIdle ==
    /\ index_file = <<>>
    /\ index_io = [writer |-> "idle", reader |-> NotRun]

LaterIdle ==
    /\ StageIdle
    /\ IndexIoIdle
    /\ graph_call = NotRun

RepoIdle ==
    /\ writers = [w \in Writers |-> NoCall]
    /\ RefsIdle
    /\ DiscoveryIdle
    /\ LaterIdle

DiffIdle ==
    /\ index_self = <<>>
    /\ index_vs = <<>>
    /\ changes = NotRun

StoreIdle ==
    /\ root = <<"/", "r">>
    /\ dirs = {}
    /\ files = << >>
    /\ op = [name |-> "none", arg |-> <<>>, existed |-> FALSE, res |-> Ok(<<>>)]

\* The object files of the shard directory of hash that the lookup matches.
Matching(hash) ==
    { h \in DOMAIN files :
        /\ ShardDir(h) = ShardDir(hash)
        /\ Contains(objects_path(root, h), ShardFile(hash)) }

\* C1: a lookup by a prefix of at least 6 characters that two or more object
\* files of the shard directory match fails with CannotSpecifyHash, and a
\* lookup succeeds only when exactly one file matches.
C1_AmbiguousPrefixFails ==
    (op.name = "try_get_objects_path" /\ Len(op.arg) >= MinHashLen) =>
        /\ Cardinality(Matching(op.arg)) >= 2 => op.res = Err("CannotSpecifyHash")
        /\ op.res.tag = "Ok" => Cardinality(Matching(op.arg)) = 1

\* C2: a write_object of an object whose file exists returns success and
\* leaves the file holding the bytes the first write stored.
C2_SecondWriteSucceeds ==
    (op.name = "write_object" /\ op.existed) =>
        /\ op.res.tag = "Ok"
        /\ files[Sha1Hex(op.arg)] = Compress(op.arg)

---------------------------------------------------------------------------
(* The commit codec (struct_set/commit.rs, struct_set/object.rs)           *)

\* The most parents a commit of the model has.
MaxParents == 2

KwTree == <<"t", "r", "e", "e">>
KwParent == <<"p", "a", "r", "e", "n", "t">>
KwAuthor == <<"a", "u", "t", "h", "o", "r">>
KwCommitter == <<"c", "o", "m", "m", "i", "t", "t", "e", "r">>
KwDate == <<"d", "a", "t", "e">>
KwCommit == <<"c", "o", "m", "m", "i", "t">>
KwBlob == <<"b", "l", "o", "b">>

\* Commit hashes used as tree and parents.
TreeHashes == { HexFrom(<<"c", "1">>) }
ParentHashes == { HexFrom(<<"a", "0">>), HexFrom(<<"b", "0">>) }

\* Author and committer names, messages and dates of the commits encoded.
Names == { <<"n">>, <<"n", " ", "s">>, <<>> }
Messages == { <<"i">>, <<"i", " ", "j">>, <<"i", "LF", "j">>, KwTree, <<>> }
Dates == { 0, 1687619045, -1 }

SeqsUpTo(S, n) == UNION { [1..k -> S] : k \in 0..n }

Commits ==
    [ tree_hash : TreeHashes, parents : SeqsUpTo(ParentHashes, MaxParents),
      author : Names, committer : Names, date : Dates, message : Messages ]

\* "parent None" written for a commit without parents.
Commit_as_bytes_parent_none(c) ==
    LET tree_hash == KwTree \o <<" ">> \o c.tree_hash
        parents == IF c.parents = <<>>
                   THEN KwParent \o <<" ", "N", "o", "n", "e", "LF">>
                   ELSE Concat([i \in 1..Len(c.parents) |->
                                   KwParent \o <<" ">> \o c.parents[i] \o <<"LF">>])
        author == KwAuthor \o <<" ">> \o c.author
        committer == KwCommitter \o <<" ">> \o c.committer
        date == KwDate \o <<" ">> \o ToDecI64(c.date)
        content == tree_hash \o <<"LF">> \o parents \o author \o <<"LF">>
                   \o committer \o <<"LF">> \o date \o <<"LF">> \o <<"LF">>
                   \o c.message \o <<"LF">>
    IN  KwCommit \o <<" ">> \o ToDec(Len(content)) \o <<"NUL">> \o content

\* Commit::as_bytes
Commit_as_bytes(c) ==
    LET tree_hash == KwTree \o <<" ">> \o c.tree_hash
        parents == Concat([i \in 1..Len(c.parents) |->
                              KwParent \o <<" ">> \o c.parents[i] \o <<"LF">>])
        author == KwAuthor \o <<" ">> \o c.author
        committer == KwCommitter \o <<" ">> \o c.committer
        date == KwDate \o <<" ">> \o ToDecI64(c.date)
        content == tree_hash \o <<"LF">> \o parents \o author \o <<"LF">>
                   \o committer \o <<"LF">> \o date \o <<"LF">> \o <<"LF">>
                   \o c.message \o <<"LF">>
    IN  KwCommit \o <<" ">> \o ToDec(Len(content)) \o <<"NUL">> \o content

\* str::parse::<i64>: an optional sign and at least one digit.
ParseI64(s) ==
    LET body == IF s # <<>> /\ s[1] \in {"-", "+"} THEN Tail(s) ELSE s
    IN  IF body = <<>> \/ \E i \in 1..Len(body) : body[i] \notin Digits
        THEN Err("ParseIntError")
        ELSE Ok(IF s[1] = "-" THEN 0 - DecVal(body) ELSE DecVal(body))

Panic == [tag |-> "Panic", err |-> "unwrap", val |-> <<>>]

\* The for_each of Commit::from_rawobject over the lines left: acc holds
\* the six fields read so far, or is Panic once an unwrap failed.
RECURSIVE CommitLines(_, _)
CommitLines(lines, acc) ==
    IF lines = <<>> \/ acc.tag = "Panic" THEN acc
    ELSE LET split == split_whitespace(Head(lines))
             f == acc.val
             next ==
                 IF split = <<>> THEN Panic
                 ELSE IF split[1] \notin {KwTree, KwParent, KwAuthor, KwCommitter, KwDate}
                 THEN Ok([f EXCEPT !.message = split[1]])
                 ELSE IF Len(split) < 2 THEN Panic
                 ELSE IF split[1] = KwTree THEN Ok([f EXCEPT !.tree_hash = split[2]])
                 ELSE IF split[1] = KwParent
                 THEN Ok([f EXCEPT !.parents = Append(f.parents, split[2])])
                 ELSE IF split[1] = KwAuthor THEN Ok([f EXCEPT !.author = split[2]])
                 ELSE IF split[1] = KwCommitter THEN Ok([f EXCEPT !.committer = split[2]])
                 ELSE Ok([f EXCEPT !.date = split[2]])
         IN  CommitLines(Tail(lines), next)

\* Commit::from_rawobject
Commit_from_rawobject(content) ==
    LET all_line == SelectSeq(SplitBy(content, {"LF"}), LAMBDA x : x # <<>>)
        read == CommitLines(all_line,
                    Ok([tree_hash |-> <<>>, parents |-> <<>>, author |-> <<>>,
                        committer |-> <<>>, date |-> <<>>, message |-> <<>>]))
    IN  IF read.tag = "Panic" THEN Panic
        ELSE LET date == ParseI64(read.val.date)
             IN  IF date.tag = "Err" THEN date
                 ELSE Ok([read.val EXCEPT !.date = date.val])

---------------------------------------------------------------------------
(* The tree codec (struct_set/tree.rs)                                     *)

\* The most entries a tree of the model has.
MaxEntries == 2

\* The length of a SHA-1 digest in bytes.
DigestLen == 20

\* Entry.mode: a regular file and a directory.
Modes == { 33188, 16877 }

\* Entry.name: plain names and one with a space in it.
EntryNames == { <<"a">>, <<"b">>, <<"a", " ", "c">> }

\* Entry.hash: 20 raw bytes, some of them 0x00 or 0x20.
EntryHashes ==
    { Repeat("e", DigestLen), <<"NUL">> \o Repeat("f", DigestLen - 1),
      Repeat("d", DigestLen - 2) \o <<" ", "NUL">> }

Entries == [ mode : Modes, name : EntryNames, hash : EntryHashes ]

\* Trees: sequences of entries that are unique by name.
Trees ==
    { [entries |-> e] :
        e \in { q \in SeqsUpTo(Entries, MaxEntries) :
                  \A i, j \in 1..Len(q) : i # j => q[i].name # q[j].name } }

\* Tree::from_entries
Tree_from_entries(entries) == [entries |-> entries]

\* Entry::as_bytes: "<mode> <name>\0<hash>"
Entry_as_bytes(e) == ToDec(e.mode) \o <<" ">> \o e.name \o <<"NUL">> \o e.hash

\* Tree::as_bytes: "tree <len>\0" and the entries as they stand in the Vec.
Tree_as_bytes(t) ==
    LET content == Concat([i \in 1..Len(t.entries) |-> Entry_as_bytes(t.entries[i])])
    IN  KwTree \o <<" ">> \o ToDec(Len(content)) \o <<"NUL">> \o content

\* The position (from 0) of the first NUL of s, or -1.
PositionNul(s) ==
    IF \A i \in 1..Len(s) : s[i] # "NUL" THEN -1
    ELSE (CHOOSE k \in 1..Len(s) : s[k] = "NUL" /\ \A j \in 1..(k - 1) : s[j] # "NUL") - 1

\* contents[from..to], both counted from 0, to excluded.
Slice(contents, from, to) == SubSeq(contents, from + 1, to)

\* The while loop of split_content from offset index on: a slice past the
\* end panics; otherwise the pieces found, the last one running to the end.
RECURSIVE split_content_from(_, _, _)
split_content_from(contents, index, result) ==
    IF index + DigestLen > Len(contents) THEN Panic
    ELSE LET b_index == PositionNul(Slice(contents, index + DigestLen, Len(contents)))
             split_index == index + DigestLen + b_index
             pushed == Append(result, Slice(contents, index, split_index))
         IN  IF b_index < 0
             THEN Ok(Append(result, Slice(contents, index, Len(contents))))
             ELSE IF split_index + 1 + DigestLen > Len(contents)
             THEN Ok(Append(pushed, Slice(contents, split_index + 1, Len(contents))))
             ELSE split_content_from(contents, split_index + 1, pushed)

\* split_content
split_content(contents) == split_content_from(contents, 0, <<>>)

\* str::parse::<u32>: an optional plus sign and at least one digit.  The
\* modes of the model have at most 9 digits; longer strings, some of which
\* exceed u32, are refused.
ParseU32(s) ==
    LET body == IF s # <<>> /\ s[1] = "+" THEN Tail(s) ELSE s
    IN  IF body = <<>> \/ \E i \in 1..Len(body) : body[i] \notin Digits
        THEN Err("ParseIntError")
        ELSE IF Len(body) > 9 THEN Err("ParseIntError")
        ELSE Ok(DecVal(body))

\* Entry::from_rawobject
Entry_from_rawobject(meta, hash) ==
    LET mode_name == split_whitespace(meta)
    IN  IF mode_name = <<>> THEN Panic
        ELSE IF ParseU32(mode_name[1]).tag = "Err" THEN Panic
        ELSE IF Len(mode_name) < 2 THEN Panic
        ELSE Ok([mode |-> ParseU32(mode_name[1]).val, name |-> mode_name[2], hash |-> hash])

\* The try_fold of Tree::from_rawobject over the pieces left.
RECURSIVE TreeFold(_, _, _)
TreeFold(pieces, header, acc) ==
    IF pieces = <<>> THEN Ok(acc)
    ELSE IF Len(Head(pieces)) < DigestLen THEN Panic
    ELSE LET hash == SubSeq(Head(pieces), 1, DigestLen)
             next_header == SubSeq(Head(pieces), DigestLen + 1, Len(Head(pieces)))
             entry == Entry_from_rawobject(header, hash)
         IN  IF entry.tag = "Panic" THEN Panic
             ELSE TreeFold(Tail(pieces), next_header, Append(acc, entry.val))

\* entries.sort_by(|a, b| a.name.cmp(&b.name)): a stable sort by name.
RECURSIVE SortByName(_)
SortByName(es) ==
    IF es = <<>> THEN <<>>
    ELSE LET i == CHOOSE k \in 1..Len(es) :
                      /\ \A j \in 1..Len(es) : ~StrLt(es[j].name, es[k].name)
                      /\ \A j \in 1..(k - 1) : es[j].name # es[k].name
         IN  <<es[i]>> \o SortByName(SubSeq(es, 1, i - 1) \o SubSeq(es, i + 1, Len(es)))

\* Tree::from_rawobject
Tree_from_rawobject(content) ==
    LET contnets == Splitn2(content, "NUL")
    IN  IF Len(contnets) < 2 THEN Panic
        ELSE LET pieces == split_content(contnets[2])
             IN  IF pieces.tag = "Panic" THEN Panic
                 ELSE LET entries == TreeFold(pieces.val, contnets[1], <<>>)
                      IN  IF entries.tag = "Panic" THEN Panic
                          ELSE Ok([entries |-> SortByName(entries.val)])

---------------------------------------------------------------------------
(* The index codec (struct_set/index.rs, struct_set/metadata.rs)           *)
(* Bytes are numbers 0..255; the u32 fields of the model stay below 2^31.  *)

\* The most records an index of the model has.
MaxRecords == 2

\* The longest filename of the model, in bytes.
MaxNameLen == 9

\* The bytes of a record before its filename.
FixedLen == 62

\* The bytes of the index header: "DIRC", version, entry count.
HeaderLen == 12

\* u32::to_be_bytes / u16::to_be_bytes
BE32(n) == << n \div 16777216, (n \div 65536) % 256, (n \div 256) % 256, n % 256 >>
BE16(n) == << (n \div 256) % 256, n % 256 >>

\* BigEndian::read_u32 / read_u16
read_u32(b) == b[1] * 16777216 + b[2] * 65536 + b[3] * 256 + b[4]
read_u16(b) == b[1] * 256 + b[2]

\* b"DIRC"
Dirc == <<68, 73, 82, 67>>

\* A filename of n bytes: the first n bytes of "a/bcdefghijk".
NameOfLen(n) == SubSeq(<<97, 47, 98, 99, 100, 101, 102, 103, 104, 105, 106, 107>>, 1, n)

\* The FileMeta records of the model, as FileMeta::new builds them:
\* filename_size is the length of the filename.
FileMetas ==
    { [ ctime |-> t, ctime_nsec |-> 500000000, mtime |-> t + 1, mtime_nsec |-> 7,
        dev |-> 16777220, ino |-> 4660, mode |-> 33188, uid |-> 501, gid |-> 20,
        filesize |-> 300, hash |-> [i \in 1..DigestLen |-> (i * n) % 256],
        filename_size |-> n, filename |-> NameOfLen(n) ] :
        t \in {0, 1687619045}, n \in 1..MaxNameLen }

Indexes == [ version : {1}, filemetas : SeqsUpTo(FileMetas, MaxRecords) ]

\* FileMeta::as_bytes
FileMeta_as_bytes(f) ==
    BE32(f.ctime) \o BE32(f.ctime_nsec) \o BE32(f.mtime) \o BE32(f.mtime_nsec)
    \o BE32(f.dev) \o BE32(f.ino) \o BE32(f.mode) \o BE32(f.uid) \o BE32(f.gid)
    \o BE32(f.filesize) \o f.hash \o BE16(f.filename_size) \o f.filename

\* FileMeta::from_rawindex
FileMeta_from_rawindex(buf) ==
    LET filename_size == read_u16(Slice(buf, 60, 62))
    IN  [ ctime |-> read_u32(Slice(buf, 0, 4)), ctime_nsec |-> read_u32(Slice(buf, 4, 8)),
          mtime |-> read_u32(Slice(buf, 8, 12)), mtime_nsec |-> read_u32(Slice(buf, 12, 16)),
          dev |-> read_u32(Slice(buf, 16, 20)), ino |-> read_u32(Slice(buf, 20, 24)),
          mode |-> read_u32(Slice(buf, 24, 28)), uid |-> read_u32(Slice(buf, 28, 32)),
          gid |-> read_u32(Slice(buf, 32, 36)), filesize |-> read_u32(Slice(buf, 36, 40)),
          hash |-> Slice(buf, 40, 60), filename_size |-> filename_size,
          filename |-> Slice(buf, 62, 62 + filename_size) ]

\* Index::as_bytes (IndexVesion1)
Index_as_bytes(ix) ==
    LET header == Dirc \o BE32(ix.version) \o BE32(Len(ix.filemetas))
        filemetas_vec ==
            [ i \in 1..Len(ix.filemetas) |->
                LET len == FixedLen + ix.filemetas[i].filename_size
                IN  FileMeta_as_bytes(ix.filemetas[i]) \o Repeat(0, 8 - (len % 8)) ]
    IN  header \o Concat(filemetas_vec)

\* padding(size) of index.rs.  size - 2 is a usize subtraction: for size < 2
\* it panics in a build with overflow checks (the dev and test profiles) and
\* wraps in one without (release).  Wrapped, with W = 2^64: size - 2 is
\* W - (2 - size), its quotient by 8 is W/8 - 1, (floor + 1) * 8 wraps to 0,
\* target is 2 and the result 2 - size.
padding(size, overflow_checks) ==
    IF size < 2
    THEN IF overflow_checks THEN Panic ELSE Ok(2 - size)
    ELSE LET floor == (size - 2) \div 8
             target == (floor + 1) * 8 + 2
         IN  Ok(target - size)

\* The for loop of Index::from_rawindex with left entries to read from
\* offset start_size on; a slice past the end of buf panics.
RECURSIVE IndexLoop(_, _, _, _, _)
IndexLoop(buf, left, start_size, filemetas, overflow_checks) ==
    IF left = 0 THEN Ok(filemetas)
    ELSE IF start_size + FixedLen > Len(buf) THEN Panic
    ELSE LET name_size == read_u16(Slice(buf, start_size + 60, start_size + FixedLen))
             padding_size == padding(name_size, overflow_checks)
         IN  IF start_size + FixedLen + name_size > Len(buf) THEN Panic
             ELSE IF padding_size.tag = "Panic" THEN Panic
             ELSE IndexLoop(buf, left - 1,
                      start_size + FixedLen + name_size + padding_size.val,
                      Append(filemetas, FileMeta_from_rawindex(
                          Slice(buf, start_size, start_size + FixedLen + name_size))),
                      overflow_checks)

\* Index::from_rawindex (IndexVesion1); Index::default() has version 0.
Index_from_rawindex(buf, overflow_checks) ==
    IF buf = <<>> THEN Ok([version |-> 0, filemetas |-> <<>>])
    ELSE IF Len(buf) < HeaderLen THEN Panic
    ELSE LET entry_num == read_u32(Slice(buf, 8, HeaderLen))
             filemetas == IndexLoop(buf, entry_num, HeaderLen, <<>>, overflow_checks)
         IN  IF filemetas.tag = "Panic" THEN Panic
             ELSE Ok([version |-> 1, filemetas |-> filemetas.val])

\* Blob::from_rawobject
Blob_from_rawobject(contnet) == Ok([content |-> contnet])

\* Object::from_content, for the kinds of the model: the header up to the
\* first NUL names the kind, the rest goes to the kind's decoder.
Object_from_content(raw_content) ==
    LET iter == Splitn2(raw_content, "NUL")
        object_type == SplitBy(iter[1], {" "})[1]
    IN  IF Len(iter) < 2 THEN Panic
        ELSE IF object_type = KwBlob THEN Blob_from_rawobject(iter[2])
        ELSE IF object_type = KwTree THEN Tree_from_rawobject(iter[2])
        ELSE IF object_type = KwCommit THEN Commit_from_rawobject(iter[2])
        ELSE Panic

---------------------------------------------------------------------------
(* Writing objects to the store and reading them back                      *)

\* Hashable::as_bytes of an Object.
Object_as_bytes(object) ==
    IF "content" \in DOMAIN object THEN Blob_as_bytes(object.content)
    ELSE IF "entries" \in DOMAIN object THEN Tree_as_bytes(object)
    ELSE Commit_as_bytes(object)

\* The objects written to the store: the blobs, a tree of one entry, and a
\* commit by an author whose name holds a space.
StoreObjects ==
    { [content |-> c] : c \in Blobs }
    \cup { [entries |-> << [mode |-> 33188, name |-> <<"a">>, hash |-> Repeat("e", DigestLen)] >>] }
    \cup { [tree_hash |-> HexFrom(<<"c", "1">>), parents |-> <<>>, author |-> <<"n", " ", "s">>,
            committer |-> <<"n">>, date |-> 0, message |-> <<"i">>] }

\* ZlibDecoder::read_to_end
Decompress(bytes) == Tail(bytes)

\* NssRepository::read_object
read_object(r, ds, fs, hash) ==
    LET hash_path == try_get_objects_path(r, ds, fs, hash)
    IN  IF hash_path.tag = "Err" THEN hash_path
        ELSE LET h == CHOOSE g \in DOMAIN fs : objects_path(r, g) = hash_path.val
             IN  Object_from_content(Decompress(fs[h]))

\* NssRepository::write_object
WriteObject(object) ==
    LET hash == Sha1Hex(Object_as_bytes(object))
        w == create_new_with_buffer(files, hash, Compress(Object_as_bytes(object)))
    IN  /\ dirs' = create_dir(dirs, ShardDir(hash))
        /\ files' = w.fs
        /\ op' = [name |-> "write_object", arg |-> Object_as_bytes(object),
                  existed |-> hash \in DOMAIN files, res |-> w.res]
        /\ UNCHANGED root

\* A call of NssRepository::try_get_objects_path.
TryGetObjectsPath(hash) ==
    /\ op' = [name |-> "try_get_objects_path", arg |-> hash, existed |-> FALSE,
              res |-> try_get_objects_path(root, dirs, files, hash)]
    /\ UNCHANGED <<root, dirs, files>>

\* A call of NssRepository::read_object with a full hash.
ReadObject(hash) ==
    /\ op' = [name |-> "read_object", arg |-> hash, existed |-> FALSE,
              res |-> read_object(root, dirs, files, hash)]
    /\ UNCHANGED <<root, dirs, files>>

StoreNext ==
    \/ \E object \in StoreObjects : WriteObject(object) /\ UNCHANGED <<codecVars, diffVars, graphVars, repoVars>>
    \/ \E hash \in Queries : TryGetObjectsPath(hash) /\ UNCHANGED <<codecVars, diffVars, graphVars, repoVars>>
    \/ \E object \in StoreObjects :
          ReadObject(Sha1Hex(Object_as_bytes(object))) /\ UNCHANGED <<codecVars, diffVars, graphVars, repoVars>>

CodecIdle ==
    /\ commit = <<>>
    /\ tree = <<>>
    /\ idx = <<>>
    /\ raw = <<>>
    /\ decoded = NotRun
    /\ blob = <<>>

StoreInit ==
    /\ root \in Roots
    /\ dirs = {}
    /\ files = << >>
    /\ op = [name |-> "none", arg |-> <<>>, existed |-> FALSE, res |-> Ok(<<>>)]
    /\ CodecIdle
    /\ DiffIdle
    /\ GraphIdle
    /\ RepoIdle

CommitInit ==
    /\ StoreIdle
    /\ DiffIdle
    /\ GraphIdle
    /\ RepoIdle
    /\ commit \in Commits
    /\ tree = <<>>
    /\ idx = <<>>
    /\ raw = <<>>
    /\ decoded = NotRun
    /\ blob = <<>>

\* commit.as_bytes()
CommitEncode ==
    /\ raw = <<>>
    /\ raw' = Commit_as_bytes(commit)
    /\ UNCHANGED <<commit, tree, idx, decoded, blob>>

\* Object::from_content(commit.as_bytes())
CommitDecode ==
    /\ raw # <<>>
    /\ decoded = NotRun
    /\ decoded' = Object_from_content(raw)
    /\ UNCHANGED <<commit, tree, idx, raw, blob>>

CommitNext ==
    \/ CommitEncode /\ UNCHANGED <<storeVars, diffVars, graphVars, repoVars>>
    \/ CommitDecode /\ UNCHANGED <<storeVars, diffVars, graphVars, repoVars>>

TreeInit ==
    /\ StoreIdle
    /\ DiffIdle
    /\ GraphIdle
    /\ RepoIdle
    /\ tree \in Trees
    /\ commit = <<>>
    /\ idx = <<>>
    /\ raw = <<>>
    /\ decoded = NotRun
    /\ blob = <<>>

\* tree.as_bytes()
TreeEncode ==
    /\ raw = <<>>
    /\ raw' = Tree_as_bytes(tree)
    /\ UNCHANGED <<commit, tree, idx, decoded, blob>>

\* Object::from_content(tree.as_bytes())
TreeDecode ==
    /\ raw # <<>>
    /\ decoded = NotRun
    /\ decoded' = Object_from_content(raw)
    /\ UNCHANGED <<commit, tree, idx, raw, blob>>

TreeNext ==
    \/ TreeEncode /\ UNCHANGED <<storeVars, diffVars, graphVars, repoVars>>
    \/ TreeDecode /\ UNCHANGED <<storeVars, diffVars, graphVars, repoVars>>

IndexInit ==
    /\ StoreIdle
    /\ DiffIdle
    /\ GraphIdle
    /\ RepoIdle
    /\ idx \in Indexes
    /\ commit = <<>>
    /\ tree = <<>>
    /\ raw = <<>>
    /\ decoded = NotRun
    /\ blob = <<>>

\* index.as_bytes()
IndexEncode ==
    /\ raw = <<>>
    /\ raw' = Index_as_bytes(idx)
    /\ UNCHANGED <<commit, tree, idx, decoded, blob>>

\* Index::from_rawindex(index.as_bytes()), in a build with or without
\* overflow checks.
IndexDecode ==
    /\ raw # <<>>
    /\ decoded = NotRun
    /\ \E overflow_checks \in BOOLEAN :
          decoded' = Index_from_rawindex(raw, overflow_checks)
    /\ UNCHANGED <<commit, tree, idx, raw, blob>>

IndexNext ==
    \/ IndexEncode /\ UNCHANGED <<storeVars, diffVars, graphVars, repoVars>>
    \/ IndexDecode /\ UNCHANGED <<storeVars, diffVars, graphVars, repoVars>>

---------------------------------------------------------------------------
(* Concurrent write_object calls, step by step                             *)

\* The objects the concurrent writers write: two blobs of one shard.
WriterObjects == { [content |-> <<>>], [content |-> <<"a">>] }

\* The hash under which a writer's buffer is stored.
HashOfBuffer(buffer) == Sha1Hex(Decompress(buffer))

\* write_object is called by writer w: the hash is taken and the framing
\* compressed.
CallWriteObject(w, object) ==
    /\ writers[w].pc = "idle"
    /\ writers' = [writers EXCEPT ![w] = [pc |-> "create_dir",
                                          buffer |-> Compress(Object_as_bytes(object)),
                                          res |-> NotRun]]
    /\ UNCHANGED <<root, dirs, files, op>>

\* file_system::create_dir(object_path.parent())
StepCreateDir(w) ==
    /\ writers[w].pc = "create_dir"
    /\ dirs' = create_dir(dirs, ShardDir(HashOfBuffer(writers[w].buffer)))
    /\ writers' = [writers EXCEPT ![w].pc = "create_new"]
    /\ UNCHANGED <<root, files, op>>

\* OpenOptions::new().write(true).create_new(true).open(path): the file is
\* created empty, or the open fails with AlreadyExists and write_object
\* returns that error.
StepCreateNew(w) ==
    LET hash == HashOfBuffer(writers[w].buffer)
    IN  /\ writers[w].pc = "create_new"
        /\ IF hash \in DOMAIN files
           THEN /\ writers' = [writers EXCEPT ![w].pc = "done",
                                              ![w].res = Err("AlreadyExists")]
                /\ UNCHANGED files
           ELSE /\ writers' = [writers EXCEPT ![w].pc = "write_all"]
                /\ files' = files @@ (hash :> <<>>)
        /\ UNCHANGED <<root, dirs, op>>

\* file.write_all(buffer): one write of some of the bytes left; with the last
\* of them written write_object returns Ok.
StepWriteAll(w) ==
    LET hash == HashOfBuffer(writers[w].buffer)
        buffer == writers[w].buffer
    IN  /\ writers[w].pc = "write_all"
        /\ \E n \in (Len(files[hash]) + 1)..Len(buffer) :
              /\ files' = [files EXCEPT ![hash] = SubSeq(buffer, 1, n)]
              /\ writers' = IF n = Len(buffer)
                            THEN [writers EXCEPT ![w].pc = "done", ![w].res = Ok(<<>>)]
                            ELSE writers
        /\ UNCHANGED <<root, dirs, op>>

WritersInit ==
    /\ StoreIdle
    /\ CodecIdle
    /\ DiffIdle
    /\ GraphIdle
    /\ RefsIdle
    /\ DiscoveryIdle
    /\ LaterIdle
    /\ writers = [w \in Writers |-> NoCall]

WritersNext ==
    \/ \E w \in Writers, object \in WriterObjects :
          CallWriteObject(w, object) /\ UNCHANGED <<codecVars, diffVars, graphVars, refVars, discoveryVars, stageVars, indexIoVars, graph_call>>
    \/ \E w \in Writers : StepCreateDir(w) /\ UNCHANGED <<codecVars, diffVars, graphVars, refVars, discoveryVars, stageVars, indexIoVars, graph_call>>
    \/ \E w \in Writers : StepCreateNew(w) /\ UNCHANGED <<codecVars, diffVars, graphVars, refVars, discoveryVars, stageVars, indexIoVars, graph_call>>
    \/ \E w \in Writers : StepWriteAll(w) /\ UNCHANGED <<codecVars, diffVars, graphVars, refVars, discoveryVars, stageVars, indexIoVars, graph_call>>

---------------------------------------------------------------------------
(* HEAD and the bookmarks (repo/repository.rs, repo/repository/bookmark.rs) *)

\* The names of bookmarks: a plain one, one with a space, one with a slash.
BookmarkNames == { <<"m">>, <<"a", " ", "b">>, <<"f", "/", "x">> }

\* The commit hashes HEAD and the bookmarks are pointed at.
CommitHashes == { HexFrom(<<"c", "1">>), HexFrom(<<"c", "2">>) }

KwBookmarker == <<"b", "o", "o", "k", "m", "a", "r", "k", "e", "r", ":", " ">>
KwBookmarksLocal ==
    <<"b", "o", "o", "k", "m", "a", "r", "k", "s", "/", "l", "o", "c", "a", "l", "/">>

\* file_system::open_file_trucate on a file that holds content (<<>> when
\* the file is absent): opened without the create flag, so an absent file
\* is an error and stays absent.
open_file_trucate(content, buffer) ==
    IF content = <<>> THEN [file |-> <<>>, res |-> Err("Io")]
    ELSE [file |-> <<buffer>>, res |-> Ok(<<>>)]

\* NssRepository::read_bookmark
read_bookmark(bs, bookmarker) ==
    IF bookmarker \in DOMAIN bs THEN Ok(bs[bookmarker]) ELSE Err("Io")

\* The content NssRepository::write_head gives to HEAD.
head_content(bs, hash_or_bookmark) ==
    KwBookmarker \o
        (IF read_bookmark(bs, hash_or_bookmark).tag = "Ok"
         THEN KwBookmarksLocal \o hash_or_bookmark
         ELSE hash_or_bookmark)

\* NssRepository::read_head_base on the HEAD file h.
read_head_base(h) ==
    IF h = <<>> THEN Err("Io")
    ELSE LET prefix_path == SplitBy(h[1], {" "})
         IN  IF Len(prefix_path) < 2 THEN Panic
             ELSE IF Contains(prefix_path[2], <<"/">>)
                  THEN LET parts == SplitBy(prefix_path[2], {"/"})
                       IN  IF Len(parts) < 3 THEN Panic ELSE Ok(parts[3])
                  ELSE Err("DetachHead")

\* A call of NssRepository::write_head.
WriteHead(hash_or_bookmark) ==
    LET w == open_file_trucate(head, head_content(bookmarks, hash_or_bookmark))
        named == read_bookmark(bookmarks, hash_or_bookmark).tag = "Ok"
    IN  /\ head' = w.file
        /\ last_write_head' = IF w.res.tag = "Ok"
                              THEN Ok([arg |-> hash_or_bookmark, named |-> named])
                              ELSE last_write_head
        /\ op' = [name |-> "write_head", arg |-> hash_or_bookmark,
                  existed |-> named, res |-> w.res]
        /\ UNCHANGED <<root, dirs, files, bookmarks, bookmark_store>>

\* A call of NssRepository::read_head_base.
ReadHeadBase ==
    /\ op' = [name |-> "read_head_base", arg |-> <<>>, existed |-> FALSE,
              res |-> read_head_base(head)]
    /\ UNCHANGED <<root, dirs, files, refVars>>

\* A call of NssRepository::write_bookmark.
WriteBookmark(bookmarker, hash) ==
    LET present == bookmarker \in DOMAIN bookmarks
        w == open_file_trucate(IF present THEN <<bookmarks[bookmarker]>> ELSE <<>>, hash)
    IN  /\ bookmarks' = IF present THEN [bookmarks EXCEPT ![bookmarker] = w.file[1]]
                        ELSE bookmarks
        /\ op' = [name |-> "write_bookmark",
                  arg |-> [name |-> bookmarker, hash |-> hash],
                  existed |-> present, res |-> w.res]
        /\ UNCHANGED <<root, dirs, files, head, last_write_head, bookmark_store>>

\* A call of NssRepository::read_bookmark.
ReadBookmark(bookmarker) ==
    /\ op' = [name |-> "read_bookmark", arg |-> [name |-> bookmarker],
              existed |-> bookmarker \in DOMAIN bookmarks,
              res |-> read_bookmark(bookmarks, bookmarker)]
    /\ UNCHANGED <<root, dirs, files, refVars>>

HexDigits ==
    << "0", "1", "2", "3", "4", "5", "6", "7", "8", "9", "a", "b", "c", "d", "e", "f" >>

\* The ASCII codes of the bytes of ByteOrder, in the same order.
ByteCodes ==
    << 0, 9, 10, 32, 45, 46, 47,
       48, 49, 50, 51, 52, 53, 54, 55, 56, 57,
       78, 90,
       97, 98, 99, 100, 101, 102, 103, 104, 105, 106, 107, 108, 109,
       110, 111, 112, 113, 114, 115, 116, 117, 118, 119, 120, 121, 122 >>

\* The byte with code n, as the model writes bytes: its character where
\* ByteOrder has one, and "x" followed by its two hex digits otherwise.
ByteName(n) ==
    IF \E i \in 1..Len(ByteCodes) : ByteCodes[i] = n
    THEN ByteOrder[CHOOSE i \in 1..Len(ByteCodes) : ByteCodes[i] = n]
    ELSE "x" \o HexDigits[(n \div 16) + 1] \o HexDigits[(n % 16) + 1]

ByteCode(b) ==
    IF \E i \in 1..Len(ByteOrder) : ByteOrder[i] = b
    THEN ByteCodes[CHOOSE i \in 1..Len(ByteOrder) : ByteOrder[i] = b]
    ELSE CHOOSE n \in 0..255 : "x" \o HexDigits[(n \div 16) + 1] \o HexDigits[(n % 16) + 1] = b

\* hex::decode: one byte for every two hex digits.
hex_decode(hex) ==
    LET val(c) == (CHOOSE i \in 1..16 : HexDigits[i] = c) - 1
    IN  [i \in 1..(Len(hex) \div 2) |->
            ByteName(16 * val(hex[2 * i - 1]) + val(hex[2 * i]))]

\* Hashable::to_hash of a commit: the 20 bytes of the SHA-1 digest that
\* Sha1Hex shows in hex.
Commit_to_hash(c) == hex_decode(Sha1Hex(Commit_as_bytes(c)))

\* String::from_utf8 succeeds: every byte is ASCII or leads as many
\* continuation bytes as its high bits announce.
RECURSIVE is_utf8(_)
is_utf8(bytes) ==
    IF bytes = <<>> THEN TRUE
    ELSE LET b == ByteCode(bytes[1])
             n == IF b < 128 THEN 0
                  ELSE IF b \in 194..223 THEN 1
                  ELSE IF b \in 224..239 THEN 2
                  ELSE IF b \in 240..244 THEN 3
                  ELSE -1
         IN  /\ n >= 0
             /\ Len(bytes) >= n + 1
             /\ \A i \in 2..(n + 1) : ByteCode(bytes[i]) \in 128..191
             /\ is_utf8(SubSeq(bytes, n + 2, Len(bytes)))

\* The BookMarks handed to Repository<BookMark>::write.
BookMarks ==
    [ name : { <<"m">>, <<"a", " ", "b">> },
      commit : { c \in Commits :
                   /\ c.parents = <<>> /\ c.author = <<"n">> /\ c.committer = <<"n">>
                   /\ c.date = 0 /\ c.message \in { <<"i">>, <<"i", " ", "j">> } } ]

\* file_system::write_content with WriteMode::default(): the file holds
\* buffer afterwards.
write_content(store, p, buffer) == (p :> buffer) @@ store

\* Repository<BookMark>::write
BookMark_write(item) ==
    /\ bookmark_store' = write_content(bookmark_store, item.name, Commit_to_hash(item.commit))
    /\ op' = [name |-> "BookMark_write", arg |-> item,
              existed |-> item.name \in DOMAIN bookmark_store, res |-> Ok(<<>>)]
    /\ UNCHANGED <<root, dirs, files, head, bookmarks, last_write_head>>

\* Repository<BookMark>::read: the bytes of the bookmark file as a String,
\* then the commit read from a path below the bookmark file, where no file
\* can be.
BookMark_read(bookmarker) ==
    /\ op' = [name |-> "BookMark_read", arg |-> [name |-> bookmarker],
              existed |-> bookmarker \in DOMAIN bookmark_store,
              res |-> IF bookmarker \notin DOMAIN bookmark_store THEN Err("Io")
                      ELSE IF ~is_utf8(bookmark_store[bookmarker]) THEN Err("FromUtf8Error")
                      ELSE Err("Io")]
    /\ UNCHANGED <<root, dirs, files, refVars>>

\* An initialised repository: HEAD exists, some of the bookmark files exist.
RefsInit ==
    /\ root = <<"/", "r">>
    /\ dirs = {}
    /\ files = << >>
    /\ op = [name |-> "none", arg |-> <<>>, existed |-> FALSE, res |-> Ok(<<>>)]
    /\ CodecIdle
    /\ DiffIdle
    /\ GraphIdle
    /\ DiscoveryIdle
    /\ LaterIdle
    /\ writers = [w \in Writers |-> NoCall]
    /\ head = << KwBookmarker \o HexFrom(<<"c", "1">>) >>
    /\ \E S \in SUBSET BookmarkNames : bookmarks = [n \in S |-> HexFrom(<<"c", "1">>)]
    /\ last_write_head = NotRun
    /\ bookmark_store = << >>

RefsNext ==
    \/ \E arg \in BookmarkNames \cup CommitHashes :
          WriteHead(arg) /\ UNCHANGED <<codecVars, diffVars, graphVars, writers, discoveryVars, stageVars, indexIoVars, graph_call>>
    \/ ReadHeadBase /\ UNCHANGED <<codecVars, diffVars, graphVars, writers, discoveryVars, stageVars, indexIoVars, graph_call>>
    \/ \E bookmarker \in BookmarkNames, hash \in CommitHashes :
          WriteBookmark(bookmarker, hash)
          /\ UNCHANGED <<codecVars, diffVars, graphVars, writers, discoveryVars, stageVars, indexIoVars, graph_call>>
    \/ \E bookmarker \in BookmarkNames :
          ReadBookmark(bookmarker)
          /\ UNCHANGED <<codecVars, diffVars, graphVars, writers, discoveryVars, stageVars, indexIoVars, graph_call>>
    \/ \E item \in BookMarks :
          BookMark_write(item) /\ UNCHANGED <<codecVars, diffVars, graphVars, writers, discoveryVars, stageVars, indexIoVars, graph_call>>
    \/ \E bookmarker \in BookmarkNames :
          BookMark_read(bookmarker)
          /\ UNCHANGED <<codecVars, diffVars, graphVars, writers, discoveryVars, stageVars, indexIoVars, graph_call>>

---------------------------------------------------------------------------
(* Repository discovery (nss_io/file_system.rs)                            *)

\* The directories that exist, as the components of their absolute paths:
\* /, /h, /h/u with two levels below it, and /t with one level below it.
DirTree ==
    { <<>>, <<"h">>, <<"h", "u">>, <<"h", "u", "w">>, <<"h", "u", "w", "v">>,
      <<"t">>, <<"t", "x">> }

\* home_dir()
HomeDir == <<"h", "u">>

\* The directories exists_repo is started in: those that exist and one that
\* does not.
StartDirs == DirTree \cup { <<"h", "u", "z">> }

\* Path::parent: None for the root.
parent(p) == IF p = <<>> THEN <<>> ELSE << SubSeq(p, 1, Len(p) - 1) >>

\* file_system::exists_repo, given Some(p) as <<p>> and None as <<>>, in a
\* process whose current directory is cwd, where the directories of nss
\* have an entry named .nss.
RECURSIVE exists_repo(_, _, _)
exists_repo(repo_dir, cwd, nss) ==
    IF repo_dir # <<>> /\ repo_dir[1] = HomeDir THEN Err("NotRepository")
    ELSE LET current_dir == IF repo_dir = <<>> THEN cwd ELSE repo_dir[1]
         IN  IF current_dir \notin DirTree THEN Err("Io")
             ELSE IF current_dir \in nss THEN Ok(current_dir)
             ELSE IF parent(current_dir) = <<>> THEN Panic
             ELSE exists_repo(parent(current_dir), cwd, nss)

\* Some of the directories hold an entry named .nss.
DiscoveryInit ==
    /\ root = <<"/", "r">>
    /\ dirs = {}
    /\ files = << >>
    /\ op = [name |-> "none", arg |-> <<>>, existed |-> FALSE, res |-> Ok(<<>>)]
    /\ CodecIdle
    /\ DiffIdle
    /\ GraphIdle
    /\ RefsIdle
    /\ LaterIdle
    /\ writers = [w \in Writers |-> NoCall]
    /\ nss_dirs \in SUBSET DirTree
    /\ found = NotRun

\* A call of exists_repo.
ExistsRepo(repo_dir, cwd) ==
    /\ found' = Ok([repo_dir |-> repo_dir, cwd |-> cwd,
                    res |-> exists_repo(repo_dir, cwd, nss_dirs)])
    /\ UNCHANGED nss_dirs

DiscoveryNext ==
    \E repo_dir \in {<<>>} \cup { <<p>> : p \in StartDirs }, cwd \in DirTree :
        ExistsRepo(repo_dir, cwd)
        /\ UNCHANGED <<storeVars, codecVars, diffVars, graphVars, writers, refVars, stageVars, indexIoVars, graph_call>>

\* The longest blob content of the model, but for one of ten bytes.
MaxBlobLen == 3

\* The bytes blob contents are made of.
BlobBytes == { "a", " ", "NUL", "LF" }

BlobContents == SeqsUpTo(BlobBytes, MaxBlobLen) \cup { Repeat("NUL", 10) }

BlobInit ==
    /\ StoreIdle
    /\ DiffIdle
    /\ GraphIdle
    /\ RepoIdle
    /\ blob \in [ content : BlobContents ]
    /\ commit = <<>>
    /\ tree = <<>>
    /\ idx = <<>>
    /\ raw = <<>>
    /\ decoded = NotRun

\* blob.as_bytes()
BlobEncode ==
    /\ raw = <<>>
    /\ raw' = Blob_as_bytes(blob.content)
    /\ UNCHANGED <<commit, tree, idx, decoded, blob>>

\* Object::from_content(blob.as_bytes())
BlobDecode ==
    /\ raw # <<>>
    /\ decoded = NotRun
    /\ decoded' = Object_from_content(raw)
    /\ UNCHANGED <<commit, tree, idx, raw, blob>>

BlobNext ==
    \/ BlobEncode /\ UNCHANGED <<storeVars, diffVars, graphVars, repoVars>>
    \/ BlobDecode /\ UNCHANGED <<storeVars, diffVars, graphVars, repoVars>>

\* The bytes of a well-formed index file of one record, and index files as
\* they may lie on disk: that file cut short at every length (the empty
\* file among them), with another magic, and with a count of two records.
OneRecordFile ==
    Index_as_bytes([version |-> 1,
                    filemetas |-> << CHOOSE f \in FileMetas : f.filename_size = 3 /\ f.ctime = 0 >>])

IndexFiles ==
    { SubSeq(OneRecordFile, 1, n) : n \in 0..Len(OneRecordFile) }
    \cup { <<88, 88, 88, 88>> \o SubSeq(OneRecordFile, 5, Len(OneRecordFile)) }
    \cup { SubSeq(OneRecordFile, 1, 8) \o BE32(2) \o SubSeq(OneRecordFile, 13, Len(OneRecordFile)) }

IndexFileInit ==
    /\ StoreIdle
    /\ DiffIdle
    /\ GraphIdle
    /\ RepoIdle
    /\ raw \in IndexFiles
    /\ commit = <<>>
    /\ tree = <<>>
    /\ idx = <<>>
    /\ decoded = NotRun
    /\ blob = <<>>

\* NssRepository::read_index: Index::from_rawindex of the bytes of the file.
ReadIndex ==
    /\ decoded = NotRun
    /\ \E overflow_checks \in BOOLEAN :
          decoded' = Index_from_rawindex(raw, overflow_checks)
    /\ UNCHANGED <<commit, tree, idx, raw, blob>>

IndexFileNext == ReadIndex /\ UNCHANGED <<storeVars, diffVars, graphVars, repoVars>>

---------------------------------------------------------------------------
(* Index diff (impl Diff<Index, OsString> for Index)                       *)

\* The most records an index given to diff has.
MaxDiffRecords == 3

\* The records diffed, by the two fields diff reads: filename and hash.
DiffMetas ==
    { [filename |-> "a.txt", hash |-> "H1"], [filename |-> "b.txt", hash |-> "H2"],
      [filename |-> "b.txt", hash |-> "H3"], [filename |-> "c.txt", hash |-> "H4"] }

DiffIndexes == [ version : {1}, filemetas : SeqsUpTo(DiffMetas, MaxDiffRecords) ]

\* filemetas.iter().map(|f| (f.filename, f.hash)).collect::<HashMap>(): a
\* later record of a filename replaces an earlier one.
MetaMap(filemetas) ==
    [ k \in { filemetas[i].filename : i \in 1..Len(filemetas) } |->
        LET last == CHOOSE i \in 1..Len(filemetas) :
                        /\ filemetas[i].filename = k
                        /\ \A j \in (i + 1)..Len(filemetas) : filemetas[j].filename # k
        IN  filemetas[last].hash ]

\* The orders in which a HashMap with the keys S may be iterated.
IterOrders(S) ==
    { q \in [1..Cardinality(S) -> S] : \A i, j \in 1..Cardinality(S) : i # j => q[i] # q[j] }

\* Equal and Replace the wrong way round.
OldTagSwapped(new_metas, old_metas, k) ==
    IF k \notin DOMAIN new_metas THEN "Delete"
    ELSE IF new_metas[k] = old_metas[k] THEN "Replace"
    ELSE "Equal"

\* The tag the first loop of diff gives a key of old_metas.
OldTag(new_metas, old_metas, k) ==
    IF k \notin DOMAIN new_metas THEN "Delete"
    ELSE IF new_metas[k] = old_metas[k] THEN "Equal"
    ELSE "Replace"

\* Insert pushed for every key of new_metas.
InsertedAll(old_metas, order) ==
    [ i \in 1..Len(order) |-> <<"Insert", order[i]>> ]

\* The second loop of diff: Insert for the keys of new_metas, in iteration
\* order, that old_metas does not hold.
Inserted(old_metas, order) ==
    LET kept == SelectSeq(order, LAMBDA k : k \notin DOMAIN old_metas)
    IN  [ i \in 1..Len(kept) |-> <<"Insert", kept[i]>> ]

\* Index::diff(&self, vs), the maps iterated in the orders given.
Index_diff(self, vs, old_order, new_order) ==
    LET new_metas == MetaMap(self.filemetas)
        old_metas == MetaMap(vs.filemetas)
    IN  [ i \in 1..Len(old_order) |->
            <<OldTag(new_metas, old_metas, old_order[i]), old_order[i]>> ]
        \o Inserted(old_metas, new_order)

DiffInit ==
    /\ StoreIdle
    /\ CodecIdle
    /\ GraphIdle
    /\ RepoIdle
    /\ index_self \in DiffIndexes
    /\ index_vs \in DiffIndexes
    /\ changes = NotRun

\* index_self.diff(index_vs)
Diff ==
    /\ changes = NotRun
    /\ \E old_order \in IterOrders(DOMAIN MetaMap(index_vs.filemetas)),
          new_order \in IterOrders(DOMAIN MetaMap(index_self.filemetas)) :
          changes' = Ok(Index_diff(index_self, index_vs, old_order, new_order))
    /\ UNCHANGED <<index_self, index_vs>>

DiffNext == Diff /\ UNCHANGED <<storeVars, codecVars, graphVars, repoVars>>

---------------------------------------------------------------------------
(* Graph<T> and common_vertex_value (structures/commit_graph.rs)           *)

\* The most vertices and the most edges a graph is given.
MaxVertexs == 3
MaxEdges == 2

\* The commit hashes the two graphs are built from: each has a tip of its
\* own and both may hold v2 and v1.
GraphValues == {"v4", "v2", "v1"}
AnotherGraphValues == {"v5", "v2", "v1"}

\* Graph::get_vertex_id: Some(id) of the first vertex holding the value, as
\* <<id>>, or None, as <<>>.  A VertexIndex counts from 0.
get_vertex_id(g, value) ==
    LET hits == { i \in 1..Len(g.vertexs) : g.vertexs[i] = value }
    IN  IF hits = {} THEN <<>>
        ELSE << (CHOOSE i \in hits : \A j \in hits : i <= j) - 1 >>

\* Graph::add_vertex that pushes the vertex whatever the graph holds.
add_vertex_push(g, value) == [g EXCEPT !.vertexs = Append(@, value)]

\* Graph::add_vertex: the graph it leaves.
add_vertex(g, value) ==
    IF get_vertex_id(g, value) # <<>> THEN g
    ELSE [g EXCEPT !.vertexs = Append(@, value)]

\* Graph::add_edges: the graph it leaves.
add_edges(g, start_id, end_id) ==
    [g EXCEPT !.edges = Append(@, [start_id |-> start_id, end_id |-> end_id])]

\* The for loop of distance over self.edges, from the i-th edge on; current is
\* the pair <<vertex, distance>> popped from the queue.
RECURSIVE ScanEdges(_, _, _, _, _)
ScanEdges(edges, i, current, queue, visited) ==
    IF i > Len(edges) THEN [queue |-> queue, visited |-> visited]
    ELSE IF edges[i].start_id = current[1] /\ edges[i].end_id \notin visited
    THEN ScanEdges(edges, i + 1, current,
                   Append(queue, <<edges[i].end_id, current[2] + 1>>),
                   visited \cup {edges[i].end_id})
    ELSE ScanEdges(edges, i + 1, current, queue, visited)

\* The while let loop of distance: Some(distance) as <<distance>>, None as <<>>.
RECURSIVE Bfs(_, _, _, _)
Bfs(edges, end_id, queue, visited) ==
    IF queue = <<>> THEN <<>>
    ELSE LET current == Head(queue)
         IN  IF current[1] = end_id THEN <<current[2]>>
             ELSE LET next == ScanEdges(edges, 1, current, Tail(queue), visited)
                  IN  Bfs(edges, end_id, next.queue, next.visited)

\* Graph::distance with the two values taken in the other order.
distance_reversed(g, start_value, end_value) ==
    LET start_id == get_vertex_id(g, end_value)
        end_id == get_vertex_id(g, start_value)
    IN  IF start_id = <<>> \/ end_id = <<>> THEN <<>>
        ELSE Bfs(g.edges, end_id[1], << <<start_id[1], 0>> >>, {start_id[1]})

\* Graph::distance
distance(g, start_value, end_value) ==
    LET start_id == get_vertex_id(g, start_value)
        end_id == get_vertex_id(g, end_value)
    IN  IF start_id = <<>> \/ end_id = <<>> THEN <<>>
        ELSE Bfs(g.edges, end_id[1], << <<start_id[1], 0>> >>, {start_id[1]})

\* Graph::to_value_set
to_value_set(g) == { g.vertexs[i] : i \in 1..Len(g.vertexs) }

\* The first pair with the greatest key.
max_by_key(pairs) ==
    IF pairs = <<>> THEN <<>>
    ELSE LET i == CHOOSE n \in 1..Len(pairs) :
                      /\ \A m \in 1..Len(pairs) : pairs[n][1] >= pairs[m][1]
                      /\ \A m \in 1..(n - 1) : pairs[m][1] < pairs[n][1]
         IN  <<pairs[i]>>

\* Iterator::min_by_key over pairs <<key, x>>: of several least elements the
\* first is returned.
min_by_key(pairs) ==
    IF pairs = <<>> THEN <<>>
    ELSE LET i == CHOOSE n \in 1..Len(pairs) :
                      /\ \A m \in 1..Len(pairs) : pairs[n][1] <= pairs[m][1]
                      /\ \A m \in 1..(n - 1) : pairs[m][1] > pairs[n][1]
         IN  <<pairs[i]>>

\* Graph::common_vertex_value, the intersection of the two HashSets iterated
\* in the order given.  Some(x) is Ok(<<x>>), None is Ok(<<>>).
common_vertex_value(self, t_graph, order) ==
    IF Len(self.vertexs) = 0 \/ Len(t_graph.vertexs) = 0 THEN Panic
    ELSE LET graph_start == self.vertexs[1]
             another_graph_start == t_graph.vertexs[1]
             d1(x) == distance(self, graph_start, x)
             d2(x) == distance(t_graph, another_graph_start, x)
         IN  IF \E i \in 1..Len(order) : d1(order[i]) = <<>> \/ d2(order[i]) = <<>>
             THEN Panic
             ELSE LET pairs == [ i \in 1..Len(order) |->
                                   <<d1(order[i])[1] + d2(order[i])[1], order[i]>> ]
                      least == min_by_key(pairs)
                  IN  Ok(IF least = <<>> THEN <<>> ELSE <<least[1][2]>>)

GraphInit ==
    /\ StoreIdle
    /\ CodecIdle
    /\ DiffIdle
    /\ RepoIdle
    /\ graph = Graph_new
    /\ another_graph = Graph_new
    /\ common = NotRun

\* graph.add_vertex(value)
AddVertex ==
    /\ common = NotRun
    /\ Len(graph.vertexs) < MaxVertexs
    /\ \E value \in GraphValues : graph' = add_vertex(graph, value)
    /\ UNCHANGED <<another_graph, common>>

\* graph.add_edges(start_id, end_id), from one vertex of the graph to another
\* (no commit is its own parent).
AddEdges ==
    /\ common = NotRun
    /\ Len(graph.edges) < MaxEdges
    /\ \E start_id, end_id \in 0..(Len(graph.vertexs) - 1) :
          /\ start_id # end_id
          /\ graph' = add_edges(graph, start_id, end_id)
    /\ UNCHANGED <<another_graph, common>>

\* another_graph.add_vertex(value)
AnotherAddVertex ==
    /\ common = NotRun
    /\ Len(another_graph.vertexs) < MaxVertexs
    /\ \E value \in AnotherGraphValues : another_graph' = add_vertex(another_graph, value)
    /\ UNCHANGED <<graph, common>>

\* another_graph.add_edges(start_id, end_id)
AnotherAddEdges ==
    /\ common = NotRun
    /\ Len(another_graph.edges) < MaxEdges
    /\ \E start_id, end_id \in 0..(Len(another_graph.vertexs) - 1) :
          /\ start_id # end_id
          /\ another_graph' = add_edges(another_graph, start_id, end_id)
    /\ UNCHANGED <<graph, common>>

\* graph.common_vertex_value(&another_graph); it may be called again.
CommonVertexValue ==
    /\ \E order \in IterOrders(to_value_set(graph) \cap to_value_set(another_graph)) :
          common' = common_vertex_value(graph, another_graph, order)
    /\ UNCHANGED <<graph, another_graph>>

GraphNext ==
    \/ AddVertex /\ UNCHANGED <<storeVars, codecVars, diffVars, repoVars>>
    \/ AddEdges /\ UNCHANGED <<storeVars, codecVars, diffVars, repoVars>>
    \/ AnotherAddVertex /\ UNCHANGED <<storeVars, codecVars, diffVars, repoVars>>
    \/ AnotherAddEdges /\ UNCHANGED <<storeVars, codecVars, diffVars, repoVars>>
    \/ CommonVertexValue /\ UNCHANGED <<storeVars, codecVars, diffVars, repoVars>>

---------------------------------------------------------------------------
(* Calls on one Graph (structures/commit_graph.rs)                         *)

\* The most edges the graph of this part is given.
MaxCallEdges == 3

\* The values distance is asked about: those of the vertices and one that
\* no vertex holds.
DistanceValues == GraphValues \cup {"v9"}

\* The VertexIndex Graph::add_vertex returns.
add_vertex_id(g, value) ==
    IF get_vertex_id(g, value) # <<>> THEN get_vertex_id(g, value)[1] ELSE Len(g.vertexs)

GraphCallsInit ==
    /\ StoreIdle
    /\ CodecIdle
    /\ DiffIdle
    /\ RefsIdle
    /\ DiscoveryIdle
    /\ StageIdle
    /\ IndexIoIdle
    /\ writers = [w \in Writers |-> NoCall]
    /\ graph = Graph_new
    /\ another_graph = Graph_new
    /\ common = NotRun
    /\ graph_call = NotRun

\* id = graph.add_vertex(value)
CallAddVertex(value) ==
    /\ graph' = add_vertex(graph, value)
    /\ graph_call' = Ok([name |-> "add_vertex", args |-> <<value>>, before |-> graph,
                         res |-> add_vertex_id(graph, value)])

\* id = graph.add_edges(start_id, end_id), the two ids being indexes that
\* add_vertex returned for two commits.
CallAddEdges(start_id, end_id) ==
    /\ Len(graph.edges) < MaxCallEdges
    /\ start_id # end_id
    /\ graph' = add_edges(graph, start_id, end_id)
    /\ graph_call' = Ok([name |-> "add_edges", args |-> <<start_id, end_id>>, before |-> graph,
                         res |-> Len(graph.edges)])

\* graph.distance(start_value, end_value)
CallDistance(start_value, end_value) ==
    /\ graph_call' = Ok([name |-> "distance", args |-> <<start_value, end_value>>,
                         before |-> graph, res |-> distance(graph, start_value, end_value)])
    /\ UNCHANGED graph

GraphCallsNext ==
    \/ \E value \in GraphValues :
          CallAddVertex(value)
          /\ UNCHANGED <<storeVars, codecVars, diffVars, another_graph, common, writers, refVars, discoveryVars, stageVars, indexIoVars>>
    \/ \E start_id, end_id \in 0..(Len(graph.vertexs) - 1) :
          CallAddEdges(start_id, end_id)
          /\ UNCHANGED <<storeVars, codecVars, diffVars, another_graph, common, writers, refVars, discoveryVars, stageVars, indexIoVars>>
    \/ \E start_value, end_value \in DistanceValues :
          CallDistance(start_value, end_value)
          /\ UNCHANGED <<storeVars, codecVars, diffVars, another_graph, common, writers, refVars, discoveryVars, stageVars, indexIoVars>>

---------------------------------------------------------------------------
(* Building the index (struct_set/index.rs, struct_set/metadata.rs)        *)

\* The paths of the working files, relative to the repository root, and
\* what the files hold.
StagePaths == { <<"a">>, <<"b">>, <<"d", "/", "c">> }
FileContents == { <<"a">>, <<"b">> }

\* Hashable::to_hash of the Blob of a file: the 20 bytes of its digest.
Blob_to_hash(content) == hex_decode(Sha1Hex(Blob_as_bytes(content)))

\* FileMeta::new and FileMeta::new_temp: the record of the file at path
\* (relative to the prefix stripped) in the directory tree wt.
FileMeta_new(wt, path) ==
    [ filesize |-> Len(wt[path]), hash |-> Blob_to_hash(wt[path]),
      filename_size |-> Len(path), filename |-> path ]

\* impl PartialEq for FileMeta, with the filenames compared.
FileMeta_eq_by_filename(a, b) == a.filename = b.filename

\* impl PartialEq for FileMeta
FileMeta_eq(a, b) == a.hash = b.hash

\* sort_by(|a, b| b.filename.cmp(&a.filename)): a stable sort, the greatest
\* filename first.
RECURSIVE SortByFilenameDesc(_)
SortByFilenameDesc(metas) ==
    IF metas = <<>> THEN <<>>
    ELSE LET i == CHOOSE n \in 1..Len(metas) :
                    /\ \A m \in 1..Len(metas) : ~StrLt(metas[n].filename, metas[m].filename)
                    /\ \A m \in 1..(n - 1) : StrLt(metas[m].filename, metas[n].filename)
         IN  <<metas[i]>> \o
             SortByFilenameDesc(SubSeq(metas, 1, i - 1) \o SubSeq(metas, i + 1, Len(metas)))

\* Index::new_all: the paths of all files, sorted, each made a FileMeta.
Index_new_all(wt) ==
    LET all_paths == SortStrings(DOMAIN wt)
    IN  [version |-> 1, filemetas |-> [i \in 1..Len(all_paths) |-> FileMeta_new(wt, all_paths[i])]]

\* Index::add of the file at path: the Index it leaves in self.
Index_add(index, wt, path) ==
    LET add_filemeta == FileMeta_new(wt, path)
        new_filemetas == SelectSeq(index.filemetas, LAMBDA f : ~FileMeta_eq(f, add_filemeta))
    IN  [index EXCEPT !.filemetas = SortByFilenameDesc(Append(new_filemetas, add_filemeta))]

\* Some files exist in the working tree; nothing is staged.
StageInit ==
    /\ StoreIdle
    /\ CodecIdle
    /\ DiffIdle
    /\ GraphIdle
    /\ RefsIdle
    /\ DiscoveryIdle
    /\ IndexIoIdle
    /\ writers = [w \in Writers |-> NoCall]
    /\ graph_call = NotRun
    /\ \E S \in SUBSET StagePaths : worktree \in [S -> FileContents]
    /\ staged = Index_empty
    /\ stage_call = NotRun
    /\ temp_dirs = {}
    /\ objects = << >>

\* The user writes a file of the working tree.
EditFile(path, content) ==
    /\ worktree' = (path :> content) @@ worktree
    /\ UNCHANGED <<staged, stage_call, temp_dirs, objects>>

\* staged = Index::new_all(repository)
NewAll ==
    /\ staged' = Index_new_all(worktree)
    /\ stage_call' = Ok([name |-> "new_all", path |-> <<>>, worktree |-> worktree,
                         before |-> staged, res |-> Ok(<<>>)])
    /\ UNCHANGED <<worktree, temp_dirs, objects>>

\* staged.add(repository, path, None): path.metadata().unwrap() panics for
\* a file that does not exist.
Add(path) ==
    /\ staged' = IF path \in DOMAIN worktree THEN Index_add(staged, worktree, path) ELSE staged
    /\ stage_call' = Ok([name |-> "add", path |-> path, worktree |-> worktree,
                         before |-> staged,
                         res |-> IF path \in DOMAIN worktree THEN Ok(<<>>) ELSE Panic])
    /\ UNCHANGED <<worktree, temp_dirs, objects>>

StageNext ==
    \/ \E path \in StagePaths, content \in FileContents :
          EditFile(path, content)
          /\ UNCHANGED <<storeVars, codecVars, diffVars, graphVars, writers, refVars, discoveryVars, indexIoVars, graph_call>>
    \/ NewAll
       /\ UNCHANGED <<storeVars, codecVars, diffVars, graphVars, writers, refVars, discoveryVars, indexIoVars, graph_call>>
    \/ \E path \in StagePaths :
          Add(path)
          /\ UNCHANGED <<storeVars, codecVars, diffVars, graphVars, writers, refVars, discoveryVars, indexIoVars, graph_call>>

---------------------------------------------------------------------------
(* index_2_tree_map (structures/tree_map.rs)                               *)

\* The filenames of the indexes mapped: at the root, one and two levels
\* down, and in two directories of the same depth.
TreeMapPaths ==
    { <<"a">>, <<"d", "/", "c">>, <<"d", "/", "e", "/", "f">>, <<"g", "/", "h">>,
      <<"g", "/", "i">> }

\* Path::parent of a path relative to the repository root; the root
\* itself is <<>>.
parent_of(path) ==
    LET slashes == { i \in 1..Len(path) : path[i] = "/" }
    IN  IF slashes = {} THEN <<>>
        ELSE SubSeq(path, 1, (CHOOSE i \in slashes : \A j \in slashes : j <= i) - 1)

\* The number of components of a directory below the repository root.
depth_of(dir) == IF dir = <<>> THEN 0 ELSE Len(SplitBy(dir, {"/"}))

\* The while loop over dir_name: the directories from dir up to the
\* repository root, the root left out.
RECURSIVE dirs_above(_)
dirs_above(dir) == IF dir = <<>> THEN {} ELSE {dir} \cup dirs_above(parent_of(dir))

\* dir_paths after sort and dedup.
dir_paths_of(index) ==
    SortStrings(UNION { {<<>>} \cup dirs_above(parent_of(index.filemetas[i].filename)) :
                          i \in 1..Len(index.filemetas) })

\* The sort_by of tmp with the two depths compared the other way round.
RECURSIVE sort_shallowest_first(_)
sort_shallowest_first(tmp) ==
    IF tmp = <<>> THEN <<>>
    ELSE LET i == CHOOSE n \in 1..Len(tmp) :
                    /\ \A m \in 1..Len(tmp) : depth_of(tmp[n][1]) <= depth_of(tmp[m][1])
                    /\ \A m \in 1..(n - 1) : depth_of(tmp[m][1]) > depth_of(tmp[n][1])
         IN  <<tmp[i]>> \o
             sort_shallowest_first(SubSeq(tmp, 1, i - 1) \o SubSeq(tmp, i + 1, Len(tmp)))

\* tmp.sort_by(|b, a| ...): a stable sort in which an element is less than
\* another exactly when it has more components.
RECURSIVE sort_deepest_first(_)
sort_deepest_first(tmp) ==
    IF tmp = <<>> THEN <<>>
    ELSE LET i == CHOOSE n \in 1..Len(tmp) :
                    /\ \A m \in 1..Len(tmp) : depth_of(tmp[n][1]) >= depth_of(tmp[m][1])
                    /\ \A m \in 1..(n - 1) : depth_of(tmp[m][1]) < depth_of(tmp[n][1])
         IN  <<tmp[i]>> \o
             sort_deepest_first(SubSeq(tmp, 1, i - 1) \o SubSeq(tmp, i + 1, Len(tmp)))

\* index_2_tree_map, temp_map iterated in the order given: the pairs of a
\* directory and its children, the files first.
index_2_tree_map(index, order) ==
    LET file_paths == [i \in 1..Len(index.filemetas) |-> index.filemetas[i].filename]
        dir_paths == dir_paths_of(index)
        children(dir) ==
            SelectSeq(file_paths, LAMBDA file : parent_of(file) = dir)
            \o SelectSeq(dir_paths, LAMBDA sub_dir : sub_dir # <<>> /\ parent_of(sub_dir) = dir)
    IN  sort_deepest_first([i \in 1..Len(order) |-> <<order[i], children(order[i])>>])

\* An index made of some files.
TreeMapInit ==
    /\ StoreIdle
    /\ CodecIdle
    /\ DiffIdle
    /\ GraphIdle
    /\ RefsIdle
    /\ DiscoveryIdle
    /\ IndexIoIdle
    /\ writers = [w \in Writers |-> NoCall]
    /\ graph_call = NotRun
    /\ \E S \in SUBSET TreeMapPaths : worktree \in [S -> FileContents]
    /\ staged = Index_new_all(worktree)
    /\ stage_call = NotRun
    /\ temp_dirs = {}
    /\ objects = << >>

\* index_2_tree_map(repository, staged)
IndexToTreeMap ==
    /\ \E order \in IterOrders({ dir_paths_of(staged)[i] : i \in 1..Len(dir_paths_of(staged)) }) :
          stage_call' = Ok([name |-> "index_2_tree_map", path |-> <<>>, worktree |-> worktree,
                            before |-> staged, res |-> Ok(index_2_tree_map(staged, order))])
    /\ UNCHANGED <<worktree, staged, temp_dirs, objects>>

TreeMapNext ==
    IndexToTreeMap
    /\ UNCHANGED <<storeVars, codecVars, diffVars, graphVars, writers, refVars, discoveryVars, indexIoVars, graph_call>>

---------------------------------------------------------------------------
(* write_index beside read_index (repo/repository.rs)                      *)

\* The indexes written to .nss/INDEX: the empty one and two of one record.
IoIndexes ==
    { Index_empty }
    \cup { [version |-> 1, filemetas |-> <<f>>] : f \in { g \in FileMetas : g.filename_size = 3 } }

\* .nss/INDEX holds a complete index; no call is in progress.
IndexIoInit ==
    /\ StoreIdle
    /\ CodecIdle
    /\ DiffIdle
    /\ GraphIdle
    /\ RefsIdle
    /\ DiscoveryIdle
    /\ StageIdle
    /\ writers = [w \in Writers |-> NoCall]
    /\ graph_call = NotRun
    /\ \E prev \in IoIndexes :
          /\ index_file = Index_as_bytes(prev)
          /\ index_io = [writer |-> "idle", reader |-> NotRun, prev |-> prev, next |-> prev]

\* write_index(index) is called: the index is encoded.
CallWriteIndex(index) ==
    /\ index_io.writer = "idle"
    /\ index_io' = [index_io EXCEPT !.writer = "open", !.next = index]
    /\ UNCHANGED index_file

\* open_file_trucate: OpenOptions::new().write(true).truncate(true).open
\* leaves the file empty.
StepTruncate ==
    /\ index_io.writer = "open"
    /\ index_file' = <<>>
    /\ index_io' = [index_io EXCEPT !.writer = "write_all"]

\* write_all: some more bytes of the buffer reach the file.
StepWriteIndex ==
    /\ index_io.writer = "write_all"
    /\ LET buffer == Index_as_bytes(index_io.next)
       IN  \E n \in (Len(index_file) + 1)..Len(buffer) :
              /\ index_file' = SubSeq(buffer, 1, n)
              /\ index_io' = IF n = Len(buffer) THEN [index_io EXCEPT !.writer = "done"]
                             ELSE index_io

\* read_index in another process: the bytes the file holds now, decoded.
StepReadIndex ==
    /\ \E overflow_checks \in BOOLEAN :
          index_io' = [index_io EXCEPT !.reader = Index_from_rawindex(index_file, overflow_checks)]
    /\ UNCHANGED index_file

IndexIoNext ==
    \/ \E index \in IoIndexes :
          CallWriteIndex(index)
          /\ UNCHANGED <<storeVars, codecVars, diffVars, graphVars, writers, refVars, discoveryVars, stageVars, graph_call>>
    \/ StepTruncate
       /\ UNCHANGED <<storeVars, codecVars, diffVars, graphVars, writers, refVars, discoveryVars, stageVars, graph_call>>
    \/ StepWriteIndex
       /\ UNCHANGED <<storeVars, codecVars, diffVars, graphVars, writers, refVars, discoveryVars, stageVars, graph_call>>
    \/ StepReadIndex
       /\ UNCHANGED <<storeVars, codecVars, diffVars, graphVars, writers, refVars, discoveryVars, stageVars, graph_call>>

---------------------------------------------------------------------------
(* Index::try_from_tree (struct_set/index.rs)                              *)

\* hex::encode
hex_encode(bytes) ==
    Concat([i \in 1..Len(bytes) |->
               <<HexDigits[(ByteCode(bytes[i]) \div 16) + 1], HexDigits[(ByteCode(bytes[i]) % 16) + 1]>>])

\* Entry::as_type: the high four bits of the third byte of the mode.
as_type(e) ==
    LET nibble == ((e.mode \div 256) % 256) \div 16
    IN  IF nibble = 4 THEN "tree" ELSE IF nibble = 8 THEN "blob" ELSE "unknown"

BlobEntry(name, content) == [mode |-> 33188, name |-> name, hash |-> Blob_to_hash(content)]

\* The subtree d of the trees below: one file, c.
SubTree == [entries |-> << BlobEntry(<<"c">>, <<"b">>) >>]

\* Hashable::to_hash of a tree.
Tree_to_hash(t) == hex_decode(Sha1Hex(Tree_as_bytes(t)))

\* The trees materialized: two files of different content, two files of
\* equal content, and a file beside a directory.
MaterializedTrees ==
    { [entries |-> << BlobEntry(<<"a">>, <<"a">>), BlobEntry(<<"b">>, <<"b">>) >>],
      [entries |-> << BlobEntry(<<"a">>, <<"a">>), BlobEntry(<<"b", "b">>, <<"a">>) >>],
      [entries |-> << BlobEntry(<<"a">>, <<"a">>),
                      [mode |-> 16877, name |-> <<"d", "d", "d">>, hash |-> Tree_to_hash(SubTree)] >>] }

\* The objects a store may hold: the two blobs and the subtree.
MaterializedObjects ==
    { [content |-> <<"a">>], [content |-> <<"b">>], SubTree }

\* Repository<Object>::read: the object stored under hash.
objects_read(objs, hash) ==
    IF hash \in DOMAIN objs THEN Ok(objs[hash]) ELSE Err("NotFoundObject")

\* NssRepository::temp_path, relative to the repository root.
temp_path(hash) == <<".", "n", "s", "s", "/">> \o hash

\* push_paths over the entries from the i-th on: Ok(path_blob), the map of
\* path |-> Blob extended, or the error of the first read that fails.
RECURSIVE push_paths(_, _, _, _, _)
push_paths(objs, path_blob, entries, i, base_path) ==
    IF i > Len(entries) THEN Ok(path_blob)
    ELSE LET entry == entries[i]
             path == base_path \o <<"/">> \o entry.name
             read == objects_read(objs, hex_encode(entry.hash))
         IN  IF as_type(entry) = "blob"
             THEN IF read.tag = "Ok" /\ "content" \in DOMAIN read.val
                  THEN push_paths(objs, (path :> read.val) @@ path_blob, entries, i + 1, base_path)
                  ELSE Err("DontMatchType")
             ELSE IF read.tag = "Ok" /\ "entries" \in DOMAIN read.val
                  THEN LET sub == push_paths(objs, path_blob, read.val.entries, 1, path)
                       IN  IF sub.tag = "Err" THEN sub
                           ELSE push_paths(objs, sub.val, entries, i + 1, base_path)
                  ELSE Err("DontMatchType")

\* The for loop of try_from_tree over path_blob in the order given, from
\* the i-th path on; the write of the failing-th file fails (none when 0).
\* written maps the files written so far, by their path below temp_dir.
RECURSIVE materialize(_, _, _, _, _, _, _)
materialize(index, path_blob, order, i, failing, temp_dir, written) ==
    IF i > Len(order) THEN Ok(index)
    ELSE IF i = failing THEN Err("Io")
    ELSE LET path == order[i]
             filename == SubSeq(path, Len(temp_dir) + 2, Len(path))
             files_now == (filename :> path_blob[path].content) @@ written
         IN  materialize(Index_add(index, files_now, filename), path_blob, order, i + 1,
                         failing, temp_dir, files_now)

\* Index::try_from_tree: what it returns and the temporary directories it
\* leaves, path_blob iterated in the order given.
try_from_tree(objs, temps, a_tree, order, failing) ==
    LET temp_dir == temp_path(hex_encode(Tree_to_hash(a_tree)))
        pushed == push_paths(objs, << >>, a_tree.entries, 1, temp_dir)
    IN  IF pushed.tag = "Err" THEN [res |-> pushed, temps |-> temps \cup {temp_dir}]
        ELSE LET built == materialize(Index_empty, pushed.val, order, 1, failing, temp_dir, << >>)
             IN  IF built.tag = "Err" THEN [res |-> built, temps |-> temps \cup {temp_dir}]
                 ELSE [res |-> built, temps |-> temps \ {temp_dir}]

\* The paths try_from_tree finds in tree: the keys of path_blob.
paths_of(objs, a_tree) ==
    LET pushed == push_paths(objs, << >>, a_tree.entries, 1, temp_path(hex_encode(Tree_to_hash(a_tree))))
    IN  IF pushed.tag = "Err" THEN {} ELSE DOMAIN pushed.val

\* A store that holds some of the objects; no temporary directory.
MaterializeInit ==
    /\ StoreIdle
    /\ CodecIdle
    /\ DiffIdle
    /\ GraphIdle
    /\ RefsIdle
    /\ DiscoveryIdle
    /\ IndexIoIdle
    /\ writers = [w \in Writers |-> NoCall]
    /\ graph_call = NotRun
    /\ worktree = << >>
    /\ staged = Index_empty
    /\ stage_call = NotRun
    /\ temp_dirs = {}
    /\ \E held \in SUBSET MaterializedObjects :
          objects = [h \in { Sha1Hex(Object_as_bytes(o)) : o \in held } |->
                        CHOOSE o \in held : Sha1Hex(Object_as_bytes(o)) = h]

\* staged = Index::try_from_tree(repository, tree)?
TryFromTree(a_tree) ==
    /\ \E order \in IterOrders(paths_of(objects, a_tree)), failing \in 0..2 :
          LET r == try_from_tree(objects, temp_dirs, a_tree, order, failing)
          IN  /\ staged' = IF r.res.tag = "Ok" THEN r.res.val ELSE staged
              /\ temp_dirs' = r.temps
              /\ stage_call' = Ok([name |-> "try_from_tree", path |-> a_tree, worktree |-> worktree,
                                   before |-> staged, res |-> r.res])
    /\ UNCHANGED <<worktree, objects>>

MaterializeNext ==
    \E a_tree \in MaterializedTrees :
        TryFromTree(a_tree)
        /\ UNCHANGED <<storeVars, codecVars, diffVars, graphVars, writers, refVars, discoveryVars, indexIoVars, graph_call>>

---------------------------------------------------------------------------
(* CommitGraph::build (struct_set/commit_graph.rs)                         *)

\* The largest depth a graph is built to.
MaxDepth == 3

\* The root of the repository a graph is built from.
BuildRoot == <<"/", "r">>

\* The hashes of the commits a store may hold; the build starts at the first.
BuildStart == HexFrom(<<"c", "1">>)
BuildCommits == { BuildStart, HexFrom(<<"c", "2">>), HexFrom(<<"c", "3">>) }

\* What the store holds under a hash: nothing, a blob, or a commit with
\* these parents (none, one, two, the same one twice, the start again).
Absent == << <<"absent">> >>
NotCommit == << <<"blob">> >>
ParentChoices ==
    { <<>>, <<HexFrom(<<"c", "2">>)>>, <<HexFrom(<<"c", "2">>), HexFrom(<<"c", "3">>)>>,
      <<HexFrom(<<"c", "3">>), HexFrom(<<"c", "3">>)>>, <<BuildStart>> }

CommitWith(parents) ==
    [tree_hash |-> HexFrom(<<"c", "1">>), parents |-> parents, author |-> <<"n">>,
     committer |-> <<"n">>, date |-> 0, message |-> <<"i">>]

\* NssRepository::read_commit
read_commit(r, ds, fs, hash) ==
    LET object == read_object(r, ds, fs, hash)
    IN  IF object.tag # "Ok" THEN object
        ELSE IF "parents" \in DOMAIN object.val THEN object
        ELSE Err("DontMatchType")

\* The depth guard that lets depth + 1 through.
at_max_depth_late(current_depth, max_depth) == current_depth > max_depth

\* commit_history: if current_depth >= max_depth { return Ok(()) }
at_max_depth(current_depth, max_depth) == current_depth >= max_depth

\* The call of commit_history that build makes, about to start.
Frame(current_hash, current_depth) ==
    [pc |-> "enter", current_hash |-> current_hash, current_depth |-> current_depth,
     child_id |-> 0, parents |-> <<>>]

\* CommitGraph::build(start_hash, repo, deep) has been called on a store
\* that holds some commits: the graph is new and commit_history is about
\* to run for start_hash at depth 0.
BuildInit ==
    /\ CodecIdle
    /\ DiffIdle
    /\ RefsIdle
    /\ DiscoveryIdle
    /\ StageIdle
    /\ IndexIoIdle
    /\ writers = [w \in Writers |-> NoCall]
    /\ root = BuildRoot
    /\ op = [name |-> "none", arg |-> <<>>, existed |-> FALSE, res |-> Ok(<<>>)]
    /\ \E held \in [BuildCommits -> ParentChoices \cup {Absent, NotCommit}] :
          LET present == { h \in BuildCommits : held[h] # Absent }
          IN  /\ dirs = { ShardDir(h) : h \in present }
              /\ files = [h \in present |->
                            Compress(IF held[h] = NotCommit THEN Blob_as_bytes(<<"a">>)
                                     ELSE Commit_as_bytes(CommitWith(held[h])))]
    /\ graph = Graph_new
    /\ another_graph = Graph_new
    /\ common = NotRun
    /\ \E deep \in 0..MaxDepth :
          graph_call = Ok([name |-> "build", start_hash |-> BuildStart, deep |-> deep,
                           stack |-> <<Frame(BuildStart, 0)>>, res |-> NotRun])

Running == graph_call.val.res = NotRun /\ graph_call.val.stack # <<>>
Top == graph_call.val.stack[Len(graph_call.val.stack)]
Below == SubSeq(graph_call.val.stack, 1, Len(graph_call.val.stack) - 1)

\* commit_history up to the for loop: the depth guard, read_commit and the
\* vertex of current_hash.  An error of read_commit goes up through every
\* `?` and is what build returns.
CommitHistoryEnter ==
    /\ Running
    /\ Top.pc = "enter"
    /\ IF at_max_depth(Top.current_depth, graph_call.val.deep)
       THEN /\ graph_call' = [graph_call EXCEPT !.val.stack = Below]
            /\ graph' = graph
       ELSE LET a_commit == read_commit(root, dirs, files, Top.current_hash)
            IN  IF a_commit.tag # "Ok"
                THEN /\ graph_call' = [graph_call EXCEPT !.val.stack = <<>>, !.val.res = a_commit]
                     /\ graph' = graph
                ELSE /\ graph' = add_vertex(graph, Top.current_hash)
                     /\ graph_call' =
                            [graph_call EXCEPT !.val.stack =
                                Append(Below, [Top EXCEPT !.pc = "loop",
                                                          !.child_id = add_vertex_id(graph, Top.current_hash),
                                                          !.parents = a_commit.val.parents])]

\* One round of the for loop over commit.parents: the vertex of the parent,
\* the edge to it and the call of commit_history for it; the return when no
\* parent is left.
CommitHistoryParent ==
    /\ Running
    /\ Top.pc = "loop"
    /\ IF Top.parents = <<>>
       THEN /\ graph_call' = [graph_call EXCEPT !.val.stack = Below]
            /\ graph' = graph
       ELSE LET parent_hash == Head(Top.parents)
                with_parent == add_vertex(graph, parent_hash)
            IN  /\ graph' = add_edges(with_parent, Top.child_id, add_vertex_id(graph, parent_hash))
                /\ graph_call' =
                       [graph_call EXCEPT !.val.stack =
                           Append(Append(Below, [Top EXCEPT !.parents = Tail(@)]),
                                  Frame(parent_hash, Top.current_depth + 1))]

\* build: Ok(graph)
BuildReturn ==
    /\ graph_call.val.res = NotRun
    /\ graph_call.val.stack = <<>>
    /\ graph_call' = [graph_call EXCEPT !.val.res = Ok(graph)]
    /\ graph' = graph

BuildNext ==
    \/ CommitHistoryEnter /\ UNCHANGED <<storeVars, codecVars, diffVars, another_graph, common, writers, refVars, discoveryVars, stageVars, indexIoVars>>
    \/ CommitHistoryParent /\ UNCHANGED <<storeVars, codecVars, diffVars, another_graph, common, writers, refVars, discoveryVars, stageVars, indexIoVars>>
    \/ BuildReturn /\ UNCHANGED <<storeVars, codecVars, diffVars, another_graph, common, writers, refVars, discoveryVars, stageVars, indexIoVars>>

Spec == StoreInit /\ [][StoreNext]_vars

SpecCommit == CommitInit /\ [][CommitNext]_vars

SpecTree == TreeInit /\ [][TreeNext]_vars

SpecIndex == IndexInit /\ [][IndexNext]_vars

SpecDiff == DiffInit /\ [][DiffNext]_vars

SpecGraph == GraphInit /\ [][GraphNext]_vars

SpecBlob == BlobInit /\ [][BlobNext]_vars

SpecWriters == WritersInit /\ [][WritersNext]_vars

SpecRefs == RefsInit /\ [][RefsNext]_vars

SpecDiscovery == DiscoveryInit /\ [][DiscoveryNext]_vars

SpecStage == StageInit /\ [][StageNext]_vars

SpecGraphCalls == GraphCallsInit /\ [][GraphCallsNext]_vars

SpecTreeMap == TreeMapInit /\ [][TreeMapNext]_vars

SpecIndexIo == IndexIoInit /\ [][IndexIoNext]_vars

SpecMaterialize == MaterializeInit /\ [][MaterializeNext]_vars

\* build is one sequential call that keeps taking its steps until it has
\* returned: weak fairness of its steps.  A step of commit_history is
\* possible exactly while a call of it is on the stack, so its weak
\* fairness is written without ENABLED.
SpecBuild ==
    /\ BuildInit
    /\ [][BuildNext]_vars
    /\ ([]<>(~Running) \/ []<><<CommitHistoryEnter \/ CommitHistoryParent>>_vars)
    /\ WF_<<graph, graph_call>>(BuildReturn)

SpecIndexFile == IndexFileInit /\ [][IndexFileNext]_vars

\* C3: decoding the framing of a commit gives back the commit: tree_hash,
\* parents in order, author, committer, date in seconds and message.
C3_CommitRoundTrip ==
    decoded # NotRun => decoded = Ok(commit)

\* The orders in which the entries of a tree can be supplied.
Orders(es) ==
    { q \in [1..Len(es) -> 1..Len(es)] : \A i, j \in 1..Len(es) : i # j => q[i] # q[j] }

\* C4: decoding the framing of a tree gives a tree whose entries (mode,
\* name, hash) are those of the tree sorted by name.
C4_TreeRoundTrip ==
    decoded # NotRun => decoded = Ok([entries |-> SortByName(tree.entries)])

\* C6: the framing of a tree is the same in whatever order its entries are
\* supplied to Tree::from_entries, and holds them sorted by name.
C6_TreeOrderInsensitive ==
    (tree # <<>> /\ raw # <<>>) =>
        /\ raw = Tree_as_bytes(Tree_from_entries(SortByName(tree.entries)))
        /\ \A q \in Orders(tree.entries) :
              raw = Tree_as_bytes(Tree_from_entries(
                        [i \in 1..Len(tree.entries) |-> tree.entries[q[i]]]))

\* C5: decoding the bytes of an index gives back its records, every field
\* of each, whatever the lengths of their filenames.
C5_IndexRoundTrip ==
    (idx # <<>> /\ decoded # NotRun) =>
        /\ decoded.tag = "Ok"
        /\ decoded.val.filemetas = idx.filemetas

\* The filenames of the records of an index.
FileNames(ix) == { ix.filemetas[i].filename : i \in 1..Len(ix.filemetas) }

\* The hash an index records for a filename: that of its last record of it.
HashOf(ix, k) ==
    LET i == CHOOSE n \in 1..Len(ix.filemetas) :
                 /\ ix.filemetas[n].filename = k
                 /\ \A j \in (n + 1)..Len(ix.filemetas) : ix.filemetas[j].filename # k
    IN  ix.filemetas[i].hash

\* The tags diff returned for a filename.
TagsOf(k) == { changes.val[i][1] : i \in { n \in 1..Len(changes.val) : changes.val[n][2] = k } }

\* The indexes of scenario S5.
S5_A == [version |-> 1, filemetas |-> << [filename |-> "a.txt", hash |-> "H1"],
                                         [filename |-> "b.txt", hash |-> "H2"] >>]
S5_B == [version |-> 1, filemetas |-> << [filename |-> "a.txt", hash |-> "H1"],
                                         [filename |-> "b.txt", hash |-> "H3"],
                                         [filename |-> "c.txt", hash |-> "H4"] >>]

C8_DiffTotal ==
    changes # NotRun =>
        /\ \A k \in FileNames(index_self) \cup FileNames(index_vs) :
              Cardinality({ n \in 1..Len(changes.val) : changes.val[n][2] = k }) = 1
        /\ \A n \in 1..Len(changes.val) :
              changes.val[n][2] \in FileNames(index_self) \cup FileNames(index_vs)

\* Two indexes sharing a filename, one of them holding it twice, and each
\* with a filename of its own, have been diffed.
C8_Witness ==
    /\ changes # NotRun
    /\ FileNames(index_self) \cap FileNames(index_vs) # {}
    /\ FileNames(index_self) \ FileNames(index_vs) # {}
    /\ FileNames(index_vs) \ FileNames(index_self) # {}
    /\ Len(index_vs.filemetas) > Cardinality(FileNames(index_vs))

\* The vertices an edge of g leads to from a vertex of the set S.
Parents(g, S) == { g.edges[i].end_id : i \in { n \in 1..Len(g.edges) : g.edges[n].start_id \in S } }

\* The vertices of g that a path of at most k edges reaches from vertex 0.
RECURSIVE Within(_, _)
Within(g, k) == IF k = 0 THEN {0} ELSE Within(g, k - 1) \cup Parents(g, Within(g, k - 1))

\* The number of edges of a shortest path of g from vertex 0 to the vertex
\* holding the value x, which some path reaches.
Generations(g, x) ==
    LET id == CHOOSE i \in 0..(Len(g.vertexs) - 1) : g.vertexs[i + 1] = x
    IN  CHOOSE k \in 0..Len(g.vertexs) :
            /\ id \in Within(g, k)
            /\ \A j \in 0..(k - 1) : id \notin Within(g, j)

\* The values both graphs hold.
CommonValues == to_value_set(graph) \cap to_value_set(another_graph)

\* Two single chains sharing the tail v2 -> v1.
Chain(tip) == [vertexs |-> <<tip, "v2", "v1">>,
               edges |-> <<[start_id |-> 0, end_id |-> 1], [start_id |-> 1, end_id |-> 2]>>]

C10_Deterministic == [][common # NotRun => common' = common]_vars

\* C11: Object::from_content applied to the framing of a blob returns a
\* Blob whose content is the blob's, empty contents and contents holding
\* NUL bytes included.
C11_BlobRoundTrip == decoded # NotRun => decoded = Ok([content |-> blob.content])

\* A blob whose content starts with a NUL byte and holds another byte after
\* it has been framed and decoded.
C11_Witness ==
    /\ decoded = Ok(blob)
    /\ Len(blob.content) >= 2
    /\ blob.content[1] = "NUL"

\* The object of the store that a full hash names.
ObjectOf(hash) == CHOOSE object \in StoreObjects : Sha1Hex(Object_as_bytes(object)) = hash

\* C12: read_object with the full hash of an object that write_object has
\* stored succeeds and returns an object equal to it.
C12_WriteThenRead ==
    (op.name = "read_object" /\ op.arg \in DOMAIN files) => op.res = Ok(ObjectOf(op.arg))

\* p is a prefix of q.
IsPrefix(p, q) == Len(p) <= Len(q) /\ SubSeq(q, 1, Len(p)) = p

\* C13: in a store left as it is, when a lookup by a prefix of at least 6
\* characters resolves to an object, the next lookup, by an extension of that
\* prefix that is still a prefix of the object's hash, resolves to the same
\* object.
C13_PrefixMonotone ==
    [][ ( /\ op.name = "try_get_objects_path"
          /\ op'.name = "try_get_objects_path"
          /\ Len(op.arg) >= MinHashLen
          /\ op.res.tag = "Ok"
          /\ IsPrefix(op.arg, op'.arg)
          /\ \E h \in DOMAIN files :
                objects_path(root, h) = op.res.val /\ IsPrefix(op'.arg, h) )
        => op'.res = op.res ]_vars

\* A lookup by a prefix longer than 6 characters has resolved to an object
\* in a store where the first 6 characters of the prefix match two objects
\* and resolve as well.
C13_Witness ==
    /\ op.name = "try_get_objects_path"
    /\ op.res.tag = "Ok"
    /\ Len(op.arg) > MinHashLen
    /\ Cardinality(Matching(SubSeq(op.arg, 1, MinHashLen))) = 2
    /\ try_get_objects_path(root, dirs, files, SubSeq(op.arg, 1, MinHashLen)).tag = "Ok"

\* The header of the framing in raw and the lines of its body.
RawHeader == Splitn2(raw, "NUL")[1]
RawBody == Splitn2(raw, "NUL")[2]
RawLines == SplitBy(RawBody, {"LF"})

C15_EmptyFileVersionOne ==
    (raw = <<>> /\ decoded # NotRun) => decoded = Ok([version |-> 1, filemetas |-> <<>>])

\* The left records declared from offset at on lie within buf, each with its
\* padding to a multiple of 8.
RECURSIVE EntriesFit(_, _, _)
EntriesFit(buf, left, at) ==
    \/ left = 0
    \/ /\ at + FixedLen <= Len(buf)
       /\ LET n == read_u16(Slice(buf, at + 60, at + FixedLen))
              end == at + FixedLen + n + (8 - ((FixedLen + n) % 8))
          IN  end <= Len(buf) /\ EntriesFit(buf, left - 1, end)

\* buf does not begin with a header of magic DIRC, version and count, or
\* ends before the records the header declares.
Malformed(buf) ==
    \/ Len(buf) < HeaderLen
    \/ SubSeq(buf, 1, 4) # Dirc
    \/ ~EntriesFit(buf, read_u32(Slice(buf, 8, HeaderLen)), HeaderLen)

\* C16: Index::from_rawindex of a non-empty malformed buffer returns an
\* error; it returns no Index and does not abort.
C16_MalformedIsError ==
    (idx = <<>> /\ raw # <<>> /\ Malformed(raw) /\ decoded # NotRun) => decoded.tag = "Err"

\* C17: when two writers have written the same object, whatever the order
\* of their steps, both write_object calls have returned success and the
\* object file holds the whole compressed framing.
C17_ConcurrentWritersSucceed ==
    ( /\ \A w \in Writers : writers[w].pc = "done"
      /\ writers[1].buffer = writers[2].buffer )
    => /\ \A w \in Writers : writers[w].res.tag = "Ok"
       /\ files[HashOfBuffer(writers[1].buffer)] = writers[1].buffer

\* C18: after write_head and write_bookmark calls in any order,
\* read_head_base returns the bookmark name when the last write_head named
\* an existing bookmark, and the DetachHead error when the last write_head
\* stored a commit hash.
C18_HeadBaseFollowsLastWrite ==
    (op.name = "read_head_base" /\ last_write_head # NotRun)
    => LET last == last_write_head.val
       IN  /\ last.named => op.res = Ok(last.arg)
           /\ (~last.named /\ last.arg \in CommitHashes) => op.res = Err("DetachHead")

\* C19: after a bookmark write the bookmark file holds the 40 hex characters
\* of the commit's hash, and reading the bookmark afterwards succeeds with
\* that hash.
C19_BookmarkHoldsHexHash ==
    /\ (op.name = "write_bookmark" /\ op.res.tag = "Ok")
       => bookmarks[op.arg.name] = op.arg.hash
    /\ (op.name = "read_bookmark" /\ op.existed)
       => op.res = Ok(bookmarks[op.arg.name])
    /\ (op.name = "BookMark_write" /\ op.res.tag = "Ok")
       => bookmark_store[op.arg.name] = Sha1Hex(Commit_as_bytes(op.arg.commit))
    /\ (op.name = "BookMark_read" /\ op.existed) => op.res.tag = "Ok"

\* The directory a recorded exists_repo call started in.
StartOf(call) == IF call.repo_dir = <<>> THEN call.cwd ELSE call.repo_dir[1]

\* d and the directories above it.
Ancestors(d) == { SubSeq(d, 1, k) : k \in 0..Len(d) }

\* The directories a walk from d visits: d and its ancestors, up to the
\* home directory when the home directory is among them.
Walked(d) ==
    { a \in Ancestors(d) : HomeDir \in Ancestors(d) => Len(a) >= Len(HomeDir) }

\* C20: exists_repo returns for every starting directory; what it returns
\* is the nearest directory, among the start and its ancestors, that has
\* an entry named .nss, and it is an error when the walk reaches the home
\* directory without finding one.
C20_DiscoveryReturnsNearest ==
    found # NotRun
    => LET start == StartOf(found.val)
           res == found.val.res
       IN  /\ res.tag \in {"Ok", "Err"}
           /\ res.tag = "Ok"
              => /\ res.val \in Ancestors(start) \cap nss_dirs
                 /\ \A a \in Ancestors(start) \cap nss_dirs : Len(a) <= Len(res.val)
           /\ (HomeDir \in Ancestors(start) /\ Walked(start) \cap nss_dirs = {})
              => res.tag = "Err"

\* The records of index, as a set, and those among them with hash h.
RecordsOf(index) == { index.filemetas[i] : i \in 1..Len(index.filemetas) }
PositionsWithHash(index, h) == { i \in 1..Len(index.filemetas) : index.filemetas[i].hash = h }

\* The filenames of index stand in descending order.
Descending(index) ==
    \A i \in 1..(Len(index.filemetas) - 1) :
        ~StrLt(index.filemetas[i].filename, index.filemetas[i + 1].filename)

\* C21: every Index that new_all or add has produced holds its records
\* sorted by filename in descending order.
C21_IndexSortedDescending ==
    (stage_call # NotRun /\ stage_call.val.res.tag = "Ok") => Descending(staged)

\* C22: after a successful add of a file whose blob hash is h the index
\* holds exactly one record with hash h, the newly built one, and every
\* record held before with another hash is still there, unchanged.
C22_AddReplacesByHash ==
    (stage_call # NotRun /\ stage_call.val.name = "add" /\ stage_call.val.res.tag = "Ok")
    => LET call == stage_call.val
           new == FileMeta_new(call.worktree, call.path)
           at == PositionsWithHash(staged, new.hash)
       IN  /\ Cardinality(at) = 1
           /\ \A i \in at : staged.filemetas[i] = new
           /\ \A r \in RecordsOf(call.before) : r.hash # new.hash => r \in RecordsOf(staged)
           /\ Len(staged.filemetas) = 1 + Cardinality({ i \in 1..Len(call.before.filemetas) :
                                                          call.before.filemetas[i].hash # new.hash })

\* C22 (witness): an add has replaced a record of the same hash and kept a
\* record of another hash.
C22_Witness ==
    /\ stage_call # NotRun /\ stage_call.val.name = "add" /\ stage_call.val.res.tag = "Ok"
    /\ LET call == stage_call.val
           new == FileMeta_new(call.worktree, call.path)
       IN  /\ \E r \in RecordsOf(call.before) : r.hash = new.hash /\ r.filename # new.filename
           /\ \E r \in RecordsOf(call.before) : r.hash # new.hash

\* C28: after Index::add calls no two records of the index have the same
\* filename; re-adding a path whose content changed replaces the record of
\* that path, and adding another path of equal content removes no record.
C28_OneRecordPerFilename ==
    (stage_call # NotRun /\ stage_call.val.name = "add" /\ stage_call.val.res.tag = "Ok")
    => LET call == stage_call.val
       IN  /\ \A i, j \in 1..Len(staged.filemetas) :
                  staged.filemetas[i].filename = staged.filemetas[j].filename => i = j
           /\ \A r \in RecordsOf(call.before) :
                  r.filename # call.path => r \in RecordsOf(staged)

\* The vertices of g that a path of at most k edges reaches from vertex s.
RECURSIVE ReachedFrom(_, _, _)
ReachedFrom(g, s, k) ==
    IF k = 0 THEN {s} ELSE ReachedFrom(g, s, k - 1) \cup Parents(g, ReachedFrom(g, s, k - 1))

\* C23: the values of the vertices are pairwise distinct; add_vertex of a
\* value the graph holds returns the index the value got first and leaves
\* the vertices as they were; add_edges appends its edge, also when the
\* graph holds an identical one.
C23_VerticesDeduplicated ==
    /\ \A i, j \in 1..Len(graph.vertexs) : graph.vertexs[i] = graph.vertexs[j] => i = j
    /\ (graph_call # NotRun /\ graph_call.val.name = "add_vertex")
       => LET call == graph_call.val
              held == { i \in 1..Len(call.before.vertexs) : call.before.vertexs[i] = call.args[1] }
          IN  /\ graph.vertexs[call.res + 1] = call.args[1]
              /\ held # {} => /\ graph.vertexs = call.before.vertexs
                              /\ call.res + 1 \in held
    /\ (graph_call # NotRun /\ graph_call.val.name = "add_edges")
       => LET call == graph_call.val
          IN  /\ Len(graph.edges) = Len(call.before.edges) + 1
              /\ graph.edges[Len(graph.edges)] = [start_id |-> call.args[1], end_id |-> call.args[2]]
              /\ SubSeq(graph.edges, 1, Len(call.before.edges)) = call.before.edges

\* C23 (witness): a value has been added a second time after another value,
\* and an edge has been added a second time.
C23_Witness ==
    /\ Len(graph.vertexs) >= 2
    /\ Len(graph.edges) >= 2 /\ graph.edges[1] = graph.edges[2]
    /\ graph_call # NotRun /\ graph_call.val.name = "add_vertex"
    /\ graph_call.val.args[1] = graph_call.val.before.vertexs[1]

\* C24: distance(s, e) is the number of edges of a shortest path from s to
\* e along the edges, 0 from a vertex to itself, and None when no path
\* leads from s to e or when s or e is no vertex of the graph.
C24_DistanceIsShortestPath ==
    (graph_call # NotRun /\ graph_call.val.name = "distance")
    => LET start_value == graph_call.val.args[1]
           end_value == graph_call.val.args[2]
           ids(v) == { i \in 0..(Len(graph.vertexs) - 1) : graph.vertexs[i + 1] = v }
           lengths == { k \in 0..Len(graph.vertexs) :
                          \E s \in ids(start_value), e \in ids(end_value) :
                              e \in ReachedFrom(graph, s, k) }
       IN  IF lengths = {} THEN graph_call.val.res = <<>>
           ELSE /\ Len(graph_call.val.res) = 1
                /\ graph_call.val.res[1] \in lengths
                /\ \A k \in lengths : graph_call.val.res[1] <= k

\* C24 (witness): distance has answered 1 for two vertices that a path of
\* two edges joins as well.
C24_Witness ==
    /\ graph_call # NotRun /\ graph_call.val.name = "distance"
    /\ graph_call.val.res = <<1>>
    /\ LET s == get_vertex_id(graph, graph_call.val.args[1])[1]
           e == get_vertex_id(graph, graph_call.val.args[2])[1]
       IN  \E m \in Parents(graph, {s}) \ {s, e} : e \in Parents(graph, {m})

\* The directories a tree map must list for index: for every file of the
\* index, the repository root and every directory between it and the file.
DirsOf(index) ==
    UNION { {<<>>} \cup { SubSeq(index.filemetas[i].filename, 1, k - 1) :
                            k \in { n \in 1..Len(index.filemetas[i].filename) :
                                      index.filemetas[i].filename[n] = "/" } } :
            i \in 1..Len(index.filemetas) }

\* The number of path components of a directory, counted in its text.
Components(dir) ==
    IF dir = <<>> THEN 0 ELSE 1 + Cardinality({ n \in 1..Len(dir) : dir[n] = "/" })

\* sub is a directory below dir.
IsBelow(sub, dir) ==
    /\ sub # dir
    /\ \/ dir = <<>>
       \/ Len(sub) > Len(dir) /\ SubSeq(sub, 1, Len(dir) + 1) = dir \o <<"/">>

\* C25: index_2_tree_map lists each directory once, the repository root
\* and every directory above a staged file, and no directory stands
\* before one of more path components, so that every directory comes
\* after all its subdirectories.
C25_TreeMapDeepestFirst ==
    (stage_call # NotRun /\ stage_call.val.name = "index_2_tree_map")
    => LET tree_dir == stage_call.val.res.val
       IN  /\ stage_call.val.res.tag = "Ok"
           /\ { tree_dir[i][1] : i \in 1..Len(tree_dir) } = DirsOf(staged)
           /\ Len(tree_dir) = Cardinality(DirsOf(staged))
           /\ \A i, j \in 1..Len(tree_dir) :
                  i < j => Components(tree_dir[i][1]) >= Components(tree_dir[j][1])
           /\ \A i, j \in 1..Len(tree_dir) :
                  IsBelow(tree_dir[j][1], tree_dir[i][1]) => j < i

\* C25 (witness): a tree map of four directories, two of them of the same
\* depth and one of them two levels down.
C25_Witness ==
    /\ stage_call # NotRun /\ stage_call.val.name = "index_2_tree_map"
    /\ Len(stage_call.val.res.val) = 4
    /\ stage_call.val.res.val[1][1] = <<"d", "/", "e">>
    /\ stage_call.val.res.val[2][1] = <<"g">>

\* C26: a read_index that runs beside a write_index returns, under every
\* interleaving, the complete index the file held before or the complete
\* index being written; it never decodes an intermediate state of the
\* file, such as the truncated empty file, as an index.
C26_ReaderSeesCompleteIndex ==
    index_io.reader # NotRun
    => \/ index_io.reader = Ok(index_io.prev)
       \/ index_io.reader = Ok(index_io.next)

\* C27: when try_from_tree has returned, an index or an error, the
\* temporary directory it created does not exist.
C27_TempDirRemoved ==
    (stage_call # NotRun /\ stage_call.val.name = "try_from_tree")
    => temp_path(hex_encode(Tree_to_hash(stage_call.val.path))) \notin temp_dirs

\* The blob entries reachable from the entries given, as pairs of the path
\* relative to the tree root and the blob hash, in a store that holds
\* every subtree.
RECURSIVE BlobEntriesOf(_, _, _)
BlobEntriesOf(objs, entries, prefix) ==
    UNION { IF as_type(entries[i]) = "blob"
            THEN { <<prefix \o entries[i].name, entries[i].hash>> }
            ELSE BlobEntriesOf(objs, objs[hex_encode(entries[i].hash)].entries,
                               prefix \o entries[i].name \o <<"/">>) :
            i \in 1..Len(entries) }

\* C29: for a tree whose blobs and subtrees are all in the store,
\* try_from_tree returns an index of exactly one record per blob entry
\* reachable from the tree, entries of equal content included, with the
\* entry's path relative to the tree root as filename and the entry's blob
\* hash as hash.
C29_OneRecordPerBlobEntry ==
    ( /\ stage_call # NotRun /\ stage_call.val.name = "try_from_tree"
      /\ stage_call.val.res.tag # "Err" )
    => LET blob_entries == BlobEntriesOf(objects, stage_call.val.path.entries, <<>>)
           index == stage_call.val.res.val
       IN  /\ stage_call.val.res.tag = "Ok"
           /\ Len(index.filemetas) = Cardinality(blob_entries)
           /\ { <<index.filemetas[i].filename, index.filemetas[i].hash>> :
                   i \in 1..Len(index.filemetas) } = blob_entries

\* The parents of the commit stored under hash, as a set.
StoredParents(hash) ==
    LET a_commit == read_commit(root, dirs, files, hash)
    IN  IF a_commit.tag = "Ok" THEN { a_commit.val.parents[i] : i \in 1..Len(a_commit.val.parents) } ELSE {}

\* build has returned a graph.
BuildReturned ==
    /\ graph_call # NotRun
    /\ graph_call.val.name = "build"
    /\ graph_call.val.res.tag = "Ok"

\* The graph build returned has the start at index 0 when deep >= 1, every
\* vertex within deep edges of the start, and only edges from a commit to
\* one of its parents in the store.
BuiltGraphSound ==
    BuildReturned =>
        LET g == graph_call.val.res.val
            deep == graph_call.val.deep
        IN  /\ deep >= 1 => (Len(g.vertexs) >= 1 /\ g.vertexs[1] = graph_call.val.start_hash)
            /\ \A v \in 0..(Len(g.vertexs) - 1) : v \in ReachedFrom(g, 0, deep)
            /\ \A i \in 1..Len(g.edges) :
                  /\ g.edges[i].start_id \in 0..(Len(g.vertexs) - 1)
                  /\ g.edges[i].end_id \in 0..(Len(g.vertexs) - 1)
                  /\ g.vertexs[g.edges[i].end_id + 1] \in StoredParents(g.vertexs[g.edges[i].start_id + 1])

\* C30: CommitGraph::build ends for every store and every depth, with an
\* error or a graph; in the graph it returns for depth >= 1 vertex 0 holds
\* start, every vertex is reached from start along at most depth edges,
\* and every edge (c, p) has p among the parents of commit c in the store.
C30_BuildTerminatesSound ==
    /\ <>(graph_call.val.res # NotRun)
    /\ []BuiltGraphSound

\* C30 happens: a graph built to depth 2 or more from a merge, with a
\* vertex two edges from the start and an edge repeated.
C30_Witness ==
    /\ BuildReturned
    /\ graph_call.val.deep >= 2
    /\ \E v \in 0..(Len(graph_call.val.res.val.vertexs) - 1) :
          /\ v \in ReachedFrom(graph_call.val.res.val, 0, 2)
          /\ v \notin ReachedFrom(graph_call.val.res.val, 0, 1)
    /\ \E i, j \in 1..Len(graph_call.val.res.val.edges) :
          i # j /\ graph_call.val.res.val.edges[i] = graph_call.val.res.val.edges[j]

=============================================================================
